---- MODULE Spec2Model ----
(***************************************************************************)
(* A model of the Gates-Of-Hell conquest editor core: the per-unit         *)
(* inventory (entity_inventory.py), the refill procedures of               *)
(* InventoryManager (managers/inventory_manager.py) and the squad cost      *)
(* computation of KnowledgeBase (knowledge_base.py).                        *)
(*                                                                         *)
(* Text of an inventory entry.  An entry line of the save file has the     *)
(* shape                                                                    *)
(*      {item "tok1" "tok2" [tag] [N] {cell x y}}                           *)
(* and is modelled by the record of its parts:                              *)
(*      name : the quoted tokens, in order (the dot-joined item name),      *)
(*      tag  : "none", "filling" or "filled" (a weapon holding a magazine), *)
(*      amt  : the amount token N, 0 when the line has no amount token,     *)
(*      x, y : the numbers of the {cell x y} group.                         *)
(* The regular expressions of constants.py are modelled by what they       *)
(* match on a line of that shape.                                           *)
(***************************************************************************)
EXTENDS Integers, Sequences, FiniteSets, TLC

VARIABLES
    shape,              \* properties_inventory_sizes[property]: <<x, y>>
    inventory_entries,  \* EntityInventory.inventory_entries
    inventory_matrix,   \* EntityInventory.inventory_matrix (None: built = FALSE)
    item_counts,        \* EntityInventory.item_counts (None: built = FALSE)
    last                \* the last call made on the inventory and what it returned

invVars == <<shape, inventory_entries, inventory_matrix, item_counts, last>>

VARIABLES
    comp_order,         \* the keys of squad_compositions in the order of the dict
    comp_members,       \* SquadCompositionInfo.members of each composition
    declared_cost,      \* SquadCompositionInfo.cost as parsed from the {cost N} groups
    comp_cost,          \* SquadCompositionInfo.cost as it stands now
    total_cost,         \* total_cost of line 1209-1220 before the rounding, -1 before the visit
    vehicles_costs,     \* KnowledgeBase.vehicles_costs
    cost_idx            \* the position of the loop of line 1208 in comp_order

costVars == <<comp_order, comp_members, declared_cost, comp_cost, total_cost,
              vehicles_costs, cost_idx>>

VARIABLES
    squads_inventories, \* the EntityInventory objects of the squad, in member order
    ap,                 \* campaign_status_info.ap, in hundredths
    pc,                 \* where the resupply of the squad stands
    step,               \* the refill step that ran last
    not_enough_ap       \* the "Not enough AP" lines logged so far

refillVars == <<squads_inventories, ap, pc, step, not_enough_ap>>

VARIABLES
    content,            \* the text of the campaign save file, a sequence of lines
    backup,             \* the text of the backup file written by save_changes
    save_inventories,   \* the inventories save_changes iterates (squads_inventories)
    squads_entries,     \* GameManager.squads_entries
    new_unit_entries,   \* InventoryManager.new_unit_entries
    squad_members_ids,  \* InventoryManager.squad_members_ids, a list
    squads,             \* GameManager.squads: the name and the living members of each squad
    mp,                 \* campaign_status_info.mp, in tenths
    new_units_resupplied_squads, \* InventoryManager.new_units_resupplied_squads
    save_pc,            \* the position inside save_changes
    save_last           \* the last operation on the save file and its arguments

saveVars == <<content, backup, save_inventories, squads_entries, new_unit_entries,
              squad_members_ids, squads, mp, new_units_resupplied_squads, save_pc,
              save_last>>

VARIABLES
    item_pattern_sizes, \* KnowledgeBase.item_pattern_sizes
    resolved,           \* the dict get_item_pattern_sizes builds at lines 189-191
    frame,              \* the running call of _resolve_pattern_size and its depth
    item_files,         \* the item definitions get_item_sizes reads, in order
    kb_item_sizes,      \* KnowledgeBase.item_sizes
    kb_pc               \* the position inside init_knowledge_base

kbVars == <<item_pattern_sizes, resolved, frame, item_files, kb_item_sizes, kb_pc>>

VARIABLES
    campaign_file,      \* the lines of the save file the editor loads
    squad_members,      \* the member ids of the squad being loaded
    loaded              \* SquadInventory.inventories, in the order of loading

loadVars == <<campaign_file, squad_members, loaded>>

vars == <<invVars, costVars, refillVars, saveVars, kbVars, loadVars>>

-----------------------------------------------------------------------------
(* Bounds of the model *)

MaxEntries == 3      \* entries an inventory holds at most

\* the amounts passed to add_item_to_inventory and the max_amount passed to
\* fill_item_in_inventory (1 is its default)
AddAmounts == {1, 2}
FillCaps == {1, 3}

-----------------------------------------------------------------------------
(* Program constants *)

DEFAULT_AMOUNT == 1

-----------------------------------------------------------------------------
(* Knowledge base tables read by the inventory *)

AMMO == <<"ammo">>
AMMO_RIFLE == <<"ammo", "rifle">>
BOX == <<"box">>
GUN == <<"gun">>
SHELL == <<"75mm_he.ammo">>

ItemNames == {AMMO, AMMO_RIFLE, BOX, GUN}

\* knowledge_base.item_sizes: guns are given the size 0 x 0
item_sizes(name) ==
    CASE name = AMMO       -> [x |-> 1, y |-> 1]
      [] name = AMMO_RIFLE -> [x |-> 2, y |-> 1]
      [] name = BOX        -> [x |-> 2, y |-> 2]
      [] name = GUN        -> [x |-> 0, y |-> 0]
      [] name = SHELL      -> [x |-> 1, y |-> 1]

\* the inventory footprints a unit's property can declare
Shapes == {<<4, 4>>, <<2, 2>>}

Entry(name, tag, amt, x, y) ==
    [name |-> name, tag |-> tag, amt |-> amt, x |-> x, y |-> y]

None == [built |-> FALSE, val |-> {}]
Some(v) == [built |-> TRUE, val |-> v]

-----------------------------------------------------------------------------
(* convert_inventory_entry_to_game_item_info *)

\* AMOUNT_PATTERN wants the digits right after a quoted token, so a tag word
\* between the name and the number hides the number; "filling" lines never
\* take their number.
convert_inventory_entry_to_game_item_info(e) ==
    [game_item_name |-> e.name,
     amount |-> IF e.amt > 0 /\ e.tag = "none" THEN e.amt ELSE DEFAULT_AMOUNT,
     cell_x |-> e.x,
     cell_y |-> e.y]

-----------------------------------------------------------------------------
(* create_inventory_matrix *)

InBounds(sh, x, y) == x >= 0 /\ y >= 0 /\ x < sh[1] /\ y < sh[2]

\* the cells of a footprint in the order of the two for loops (i outer, j inner)
FootprintCell(e, sz, k) == <<e.x + (k \div sz.y), e.y + (k % sz.y)>>

\* index of the first cell of the footprint that stops the build, -1 when none
RECURSIVE FirstBadCell(_, _, _, _, _)
FirstBadCell(sh, occ, e, sz, k) ==
    IF k >= sz.x * sz.y THEN -1
    ELSE LET c == FootprintCell(e, sz, k) IN
         IF ~InBounds(sh, c[1], c[2]) \/ c \in occ THEN k
         ELSE FirstBadCell(sh, occ, e, sz, k + 1)

FootprintCells(e, sz) == {FootprintCell(e, sz, k) : k \in 0 .. (sz.x * sz.y - 1)}

\* status "ok" with the occupied cells, or the exception the loop stops with:
\* the assert of line 185 on an occupied cell, numpy's IndexError outside the grid
RECURSIVE BuildFrom(_, _, _, _)
BuildFrom(sh, entries, k, occ) ==
    IF k > Len(entries) THEN [status |-> "ok", occ |-> occ]
    ELSE LET e == entries[k]
             sz == item_sizes(convert_inventory_entry_to_game_item_info(e).game_item_name)
             bad == FirstBadCell(sh, occ, e, sz, 0)
         IN  IF bad = -1 THEN BuildFrom(sh, entries, k + 1, occ \cup FootprintCells(e, sz))
             ELSE LET c == FootprintCell(e, sz, bad) IN
                  IF ~InBounds(sh, c[1], c[2])
                  THEN [status |-> "IndexError", occ |-> occ]
                  ELSE [status |-> "AssertionError", occ |-> occ]

create_inventory_matrix(sh, entries) == BuildFrom(sh, entries, 1, {})

-----------------------------------------------------------------------------
(* find_inventory_space_for_item *)

\* item_fit_checks after the probe loops of lines 219-233: cell (i, j) is set
\* when the loops reach it and find it inside the grid and empty; a break
\* leaves the rest of row i unset
RowProbe(sh, occ, sx, sy, i, ys) ==
    {j \in 0 .. (ys - 1) :
        \A jj \in 0 .. j : InBounds(sh, sx + i, sy + jj) /\ <<sx + i, sy + jj>> \notin occ}

\* a probe that looks at the start cell only and takes the rest of the
\* footprint for free when it lies inside the grid
item_fit_checks_start_only(sh, occ, sx, sy, xs, ys) ==
    IF <<sx, sy>> \notin occ
    THEN {<<i, j>> \in (0 .. (xs - 1)) \X (0 .. (ys - 1)) : InBounds(sh, sx + i, sy + j)}
    ELSE {}

item_fit_checks(sh, occ, sx, sy, xs, ys) ==
    IF <<sx, sy>> \notin occ
    THEN {<<i, j>> \in (0 .. (xs - 1)) \X (0 .. (ys - 1)) : j \in RowProbe(sh, occ, sx, sy, i, ys)}
    ELSE {}

\* np.all(item_fit_checks): every cell of the xs by ys array is set
np_all(checks, xs, ys) == \A i \in 0 .. (xs - 1) : \A j \in 0 .. (ys - 1) : <<i, j>> \in checks

\* a scan with the loops swapped: x outer, y inner
ScanCellRowMajor(sh, k) == <<k \div sh[2], k % sh[2]>>

\* the k-th start cell of the scan of lines 212-213: y outer, x inner
ScanCell(sh, k) == <<k % sh[1], k \div sh[1]>>

\* a scan that asks np.all at every start cell, empty or not
RECURSIVE ScanFrom_every_cell(_, _, _, _, _)
ScanFrom_every_cell(sh, occ, xs, ys, k) ==
    IF k >= sh[1] * sh[2] THEN [found |-> FALSE, x |-> -1, y |-> -1]
    ELSE LET c == ScanCell(sh, k) IN
         IF np_all(item_fit_checks(sh, occ, c[1], c[2], xs, ys), xs, ys)
         THEN [found |-> TRUE, x |-> c[1], y |-> c[2]]
         ELSE ScanFrom_every_cell(sh, occ, xs, ys, k + 1)

\* np.all is asked only at a start cell that is empty (lines 215-234)
RECURSIVE ScanFrom(_, _, _, _, _)
ScanFrom(sh, occ, xs, ys, k) ==
    IF k >= sh[1] * sh[2] THEN [found |-> FALSE, x |-> -1, y |-> -1]
    ELSE LET c == ScanCell(sh, k) IN
         IF c \notin occ /\ np_all(item_fit_checks(sh, occ, c[1], c[2], xs, ys), xs, ys)
         THEN [found |-> TRUE, x |-> c[1], y |-> c[2]]
         ELSE ScanFrom(sh, occ, xs, ys, k + 1)

\* found = FALSE stands for the ItemFitError of line 242
find_inventory_space_for_item(sh, occ, name) ==
    ScanFrom(sh, occ, item_sizes(name).x, item_sizes(name).y, 0)

-----------------------------------------------------------------------------
(* prepare_inventory_item_entry: the amount is written only above 1 *)

prepare_inventory_item_entry(name, x, y, amount) ==
    Entry(name, "none", IF amount > DEFAULT_AMOUNT THEN amount ELSE 0, x, y)

-----------------------------------------------------------------------------
(* add_item_to_inventory *)

\* a call that writes the entry at the first cell before it looks for room
add_item_to_inventory_writing_first(sh, entries, matrix, name, amount) ==
    LET spot == find_inventory_space_for_item(sh, matrix.val, name)
        added == Append(entries, prepare_inventory_item_entry(
                                     name, IF spot.found THEN spot.x ELSE 0,
                                     IF spot.found THEN spot.y ELSE 0, amount))
        built == create_inventory_matrix(sh, added)
    IN  IF spot.found /\ built.status = "ok"
        THEN [ok |-> TRUE, err |-> "none", entries |-> added,
              matrix |-> Some(built.occ), x |-> spot.x, y |-> spot.y]
        ELSE [ok |-> FALSE, err |-> "none", entries |-> added, matrix |-> matrix,
              x |-> -1, y |-> -1]

\* The call on an inventory whose grid is built.  ok is the value returned;
\* err names an exception that leaves the call other than ItemFitError (which
\* the call catches and turns into False).
add_item_to_inventory(sh, entries, matrix, name, amount) ==
    LET Place(spot) ==
            IF ~spot.found
            THEN [ok |-> FALSE, err |-> "none", entries |-> entries, matrix |-> matrix,
                  x |-> -1, y |-> -1]
            ELSE LET added == Append(entries, prepare_inventory_item_entry(
                                                  name, spot.x, spot.y, amount))
                     Rebuilt(built) ==
                         IF built.status = "ok"
                         THEN [ok |-> TRUE, err |-> "none", entries |-> added,
                               matrix |-> Some(built.occ), x |-> spot.x, y |-> spot.y]
                         ELSE [ok |-> FALSE, err |-> built.status, entries |-> added,
                               matrix |-> matrix, x |-> spot.x, y |-> spot.y]
                 IN  Rebuilt(create_inventory_matrix(sh, added))
    IN  Place(find_inventory_space_for_item(sh, matrix.val, name))

-----------------------------------------------------------------------------
(* fill_item_in_inventory *)

\* `"tok1" "tok2"` in inventory_entry: the quoted tokens of the item name
\* occur, in order and next to each other, among the quoted tokens of the line
NameInEntry(needle, e) ==
    \E s \in 0 .. (Len(e.name) - Len(needle)) :
        \A t \in 1 .. Len(needle) : e.name[s + t] = needle[t]

\* FILL_AMOUNT_PATTERN finds the digits in front of {cell: the amount token
HasAmountToken(e) == e.amt > 0

\* a loop that rewrites the first matching entry whatever its amount
RECURSIVE FillIndexFromAnyAmount(_, _, _, _)
FillIndexFromAnyAmount(entries, name, max_amount, i) ==
    IF i > Len(entries) THEN 0
    ELSE LET e == entries[i] IN
         IF e.tag = "none" /\ NameInEntry(name, e) /\ HasAmountToken(e) /\ e.amt # max_amount
         THEN i
         ELSE FillIndexFromAnyAmount(entries, name, max_amount, i + 1)

\* line 310-317: the entry the loop rewrites, 0 when it rewrites none
RECURSIVE FillIndexFrom(_, _, _, _)
FillIndexFrom(entries, name, max_amount, i) ==
    IF i > Len(entries) THEN 0
    ELSE LET e == entries[i] IN
         IF e.tag = "filling" \/ e.tag = "filled"
         THEN FillIndexFrom(entries, name, max_amount, i + 1)
         ELSE IF NameInEntry(name, e) /\ HasAmountToken(e) /\ e.amt < max_amount
              THEN i
              ELSE FillIndexFrom(entries, name, max_amount, i + 1)

\* re.sub of " <current> {" by " <max> {": the amount token is the one place
\* of the line where a number stands between a blank and " {"
SubAmount(e, max_amount) == [e EXCEPT !.amt = max_amount]

fill_item_in_inventory(sh, entries, matrix, name, max_amount) ==
    LET i == FillIndexFrom(entries, name, max_amount, 1) IN
    IF i = 0
    THEN [delta |-> 0, err |-> "none", entries |-> entries, matrix |-> matrix, index |-> 0]
    ELSE LET filled == [entries EXCEPT ![i] = SubAmount(entries[i], max_amount)]
             built == create_inventory_matrix(sh, filled)
         IN  IF built.status = "ok"
             THEN [delta |-> max_amount - entries[i].amt, err |-> "none",
                   entries |-> filled, matrix |-> Some(built.occ), index |-> i]
             ELSE [delta |-> 0, err |-> built.status,
                   entries |-> filled, matrix |-> matrix, index |-> i]

-----------------------------------------------------------------------------
(* count_items_in_inventory *)

RECURSIVE AmountOf(_, _, _)
AmountOf(entries, name, i) ==
    IF i > Len(entries) THEN 0
    ELSE LET info == convert_inventory_entry_to_game_item_info(entries[i]) IN
         (IF info.game_item_name = name THEN info.amount ELSE 0)
            + AmountOf(entries, name, i + 1)

count_items_in_inventory(entries) ==
    [n \in {convert_inventory_entry_to_game_item_info(entries[i]).game_item_name :
                i \in 1 .. Len(entries)}
        |-> AmountOf(entries, n, 1)]

-----------------------------------------------------------------------------
(* calculate_squad_composition_costs *)

MaxCount == 2        \* largest count of an infantry member of a composition

ENGINEER == "mp/usa/late/101st_eng_at_m1a1"
RIFLEMAN == "mp/ger/mid/rifleman"
GHOST == "mp/ger/mid/ghost"
MORTAR == "60mm_m2_late"
TANK == "tank"

\* the compositions of the conquest squad lists; the mortar is also a key of
\* infantry_costs (line 1283)
CompNames == {TANK, MORTAR}
MemberKeys == {ENGINEER, RIFLEMAN, GHOST, TANK, MORTAR}
DeclaredCosts == {3, 10}

\* Costs of infantry are floats (float(cost_str), line 1269) and are kept here
\* in tenths; the cost of a composition is an int (line 1158, line 1228).
TENTHS == 10
ENGINEER_COST == 73
MORTAR_COST == 170
RIFLEMAN_COST_TENTHS == 125

InfantryNames == {ENGINEER, RIFLEMAN, MORTAR}
infantry_costs(name) ==
    CASE name = ENGINEER -> ENGINEER_COST * TENTHS
      [] name = MORTAR -> MORTAR_COST * TENTHS
      [] name = RIFLEMAN -> RIFLEMAN_COST_TENTHS

\* the member tables a composition can have, at most two members: a
\* vehicle(...) part and the entry of a vehicle itself count 1 (lines 1152,
\* 1184), the others count what the list says (line 1181)
MemberTables ==
    {t \in UNION {[keys -> 1 .. MaxCount] :
                    keys \in {k \in SUBSET MemberKeys : Cardinality(k) <= 2}} :
        \A m \in DOMAIN t \cap CompNames : t[m] = 1}

\* math.floor(total / 5) * 5 of a total in tenths
FloorToFive(total) == (total \div (5 * TENTHS)) * 5

\* math.ceil(total / 5) * 5 of a total in tenths
CeilToFive(total) == ((total + 5 * TENTHS - 1) \div (5 * TENTHS)) * 5

\* int(total_cost) of a total in tenths
IntOf(total) == total \div TENTHS

RECURSIVE SumOver(_, _, _)
SumOver(keys, f, acc) ==
    IF keys = {} THEN acc
    ELSE LET k == CHOOSE x \in keys : TRUE IN SumOver(keys \ {k}, f, acc + f[k])

\* the member resolves through infantry_costs (line 1212)
IsInfantryMember(m) == m \in InfantryNames

\* the member resolves through squad_compositions (line 1215)
IsVehicleMember(m) == m \notin InfantryNames /\ m \in CompNames

\* what one member adds to total_cost (lines 1212-1225), in tenths, with the
\* costs as they stand when the composition is visited
MemberCost(name, members, costs, m) ==
    IF IsInfantryMember(m) THEN infantry_costs(m) * members[m]
    ELSE IF IsVehicleMember(m) /\ m # name THEN costs[m] * TENTHS * members[m]
    ELSE 0

\* the body of the loop of line 1208 for one composition
VisitComposition(name, members, costs) ==
    LET MC == [m \in DOMAIN members |-> MemberCost(name, members, costs, m)]
        total == SumOver(DOMAIN members, MC, costs[name] * TENTHS)
        has_vehicle == \E m \in DOMAIN members : IsVehicleMember(m)
    IN  [total |-> total,
         cost |-> IF has_vehicle THEN CeilToFive(total) ELSE IntOf(total),
         vehicles |-> {m \in DOMAIN members : IsVehicleMember(m) /\ m # name}]

RECURSIVE CostsInOrder(_, _, _, _)
\* calculate_squad_composition_costs run over the compositions in a given order
CostsInOrder(order, members, costs, k) ==
    IF k > Len(order) THEN costs
    ELSE CostsInOrder(order, members,
                      [costs EXCEPT ![order[k]] =
                          VisitComposition(order[k], members[order[k]], costs).cost],
                      k + 1)

Orders == {o \in [1 .. Cardinality(CompNames) -> CompNames] :
              \A i, j \in DOMAIN o : i # j => o[i] # o[j]}

CostIdle ==
    /\ comp_order = <<>>
    /\ comp_members = <<>>
    /\ declared_cost = <<>>
    /\ comp_cost = <<>>
    /\ total_cost = <<>>
    /\ vehicles_costs = {}
    /\ cost_idx = 0

RefillIdle ==
    /\ squads_inventories = <<>>
    /\ ap = 0
    /\ pc = [unit |-> 0, phase |-> "idle", i |-> 0]
    /\ step = [kind |-> "none"]
    /\ not_enough_ap = 0

LoadIdle ==
    /\ campaign_file = <<>>
    /\ squad_members = <<>>
    /\ loaded = <<>>

KBIdle ==
    /\ item_pattern_sizes = <<>>
    /\ resolved = <<>>
    /\ frame = [depth |-> 0]
    /\ item_files = <<>>
    /\ kb_item_sizes = <<>>
    /\ kb_pc = [phase |-> "idle", i |-> 0, raised |-> "none"]

SaveIdle ==
    /\ content = <<>>
    /\ backup = <<>>
    /\ save_inventories = <<>>
    /\ squads_entries = <<>>
    /\ new_unit_entries = <<>>
    /\ squad_members_ids = <<>>
    /\ squads = <<>>
    /\ mp = 0
    /\ new_units_resupplied_squads = {}
    /\ save_pc = [phase |-> "idle", k |-> 0]
    /\ save_last = [op |-> "none"]

InvIdle ==
    /\ shape = <<0, 0>>
    /\ inventory_entries = <<>>
    /\ inventory_matrix = None
    /\ item_counts = None
    /\ last = [op |-> "init", name |-> <<>>, ret |-> "None", delta |-> 0]

InitCost ==
    /\ comp_order \in Orders
    /\ comp_members \in [CompNames -> MemberTables]
    /\ declared_cost \in [CompNames -> DeclaredCosts]
    /\ comp_cost = declared_cost
    /\ total_cost = [c \in CompNames |-> -1]
    /\ vehicles_costs = {}
    /\ cost_idx = 1
    /\ InvIdle
    /\ RefillIdle
    /\ SaveIdle
    /\ KBIdle
    /\ LoadIdle

\* one turn of the loop of line 1208
CostStep ==
    /\ cost_idx \in 1 .. Len(comp_order)
    /\ LET name == comp_order[cost_idx]
           r == VisitComposition(name, comp_members[name], comp_cost)
       IN  /\ comp_cost' = [comp_cost EXCEPT ![name] = r.cost]
           /\ total_cost' = [total_cost EXCEPT ![name] = r.total]
           /\ vehicles_costs' = {p \in vehicles_costs : p[1] \notin r.vehicles}
                                   \cup {<<m, comp_cost[m]>> : m \in r.vehicles}
    /\ cost_idx' = cost_idx + 1
    /\ UNCHANGED <<comp_order, comp_members, declared_cost>>
    /\ UNCHANGED <<invVars, refillVars, saveVars, kbVars, loadVars>>

NextCost == CostStep

SpecCost == InitCost /\ [][NextCost]_vars

CostsDone == cost_idx > Len(comp_order) /\ comp_order # <<>>

-----------------------------------------------------------------------------
(* The inventory of one unit and the calls made on it *)

\* inventories a save can hold for a unit (every one builds on every shape)
SavedInventories ==
    { <<>>,
      <<Entry(GUN, "filled", 0, 0, 0), Entry(AMMO, "none", 0, 1, 0)>>,
      <<Entry(AMMO_RIFLE, "none", 2, 0, 1), Entry(AMMO, "none", 3, 0, 0)>> }

\* what is kept of a call: the method, the item it was made for, how it ended
\* ("True", "False", "None" or the exception that left it) and, for
\* fill_item_in_inventory, the number returned
Call(op, name, ret, delta) == [op |-> op, name |-> name, ret |-> ret, delta |-> delta]

Init ==
    /\ shape \in Shapes
    /\ inventory_entries \in SavedInventories
    /\ inventory_matrix = None
    /\ item_counts = None
    /\ last = Call("init", <<>>, "None", 0)
    /\ CostIdle
    /\ RefillIdle
    /\ SaveIdle
    /\ KBIdle
    /\ LoadIdle

CreateInventoryMatrix ==
    LET built == create_inventory_matrix(shape, inventory_entries) IN
    /\ inventory_matrix' = IF built.status = "ok" THEN Some(built.occ) ELSE inventory_matrix
    /\ last' = Call("create_inventory_matrix", <<>>,
                    IF built.status = "ok" THEN "None" ELSE built.status, 0)
    /\ UNCHANGED <<shape, inventory_entries, item_counts>>
    /\ UNCHANGED <<costVars, refillVars, saveVars, kbVars, loadVars>>

\* line 207: the assert on a grid that was never built
AddItem(name, amount) ==
    IF ~inventory_matrix.built
    THEN /\ last' = Call("add_item_to_inventory", name, "AssertionError", 0)
         /\ UNCHANGED <<shape, inventory_entries, inventory_matrix, item_counts>>
         /\ UNCHANGED <<costVars, refillVars, saveVars, kbVars, loadVars>>
    ELSE LET r == add_item_to_inventory(shape, inventory_entries, inventory_matrix,
                                        name, amount) IN
         /\ Len(r.entries) <= MaxEntries
         /\ inventory_entries' = r.entries
         /\ inventory_matrix' = r.matrix
         /\ last' = Call("add_item_to_inventory", name,
                         IF r.err # "none" THEN r.err
                         ELSE IF r.ok THEN "True" ELSE "False", 0)
         /\ UNCHANGED <<shape, item_counts>>
         /\ UNCHANGED <<costVars, refillVars, saveVars, kbVars, loadVars>>

FillItem(name, max_amount) ==
    LET r == fill_item_in_inventory(shape, inventory_entries, inventory_matrix,
                                    name, max_amount) IN
    /\ inventory_entries' = r.entries
    /\ inventory_matrix' = r.matrix
    /\ last' = Call("fill_item_in_inventory", name,
                    IF r.err # "none" THEN r.err ELSE "None", r.delta)
    /\ UNCHANGED <<shape, item_counts>>
    /\ UNCHANGED <<costVars, refillVars, saveVars, kbVars, loadVars>>

Next ==
    \/ CreateInventoryMatrix
    \/ \E name \in ItemNames, amount \in AddAmounts : AddItem(name, amount)
    \/ \E name \in ItemNames, max_amount \in FillCaps : FillItem(name, max_amount)

Spec == Init /\ [][Next]_vars

-----------------------------------------------------------------------------
(* InventoryManager: the resupply of a squad *)

MaxUnits == 2        \* members of the squad at most

\* knowledge_base.weapons_list
weapons_list == {GUN}

\* "ammo" in item_name
HasAmmoInName(name) == name \in {AMMO, AMMO_RIFLE, SHELL}

\* "bullet" in item_name
HasBulletInName(name) == FALSE

\* knowledge_base.item_weights, in hundredths
item_weights(name) ==
    CASE name = GUN -> 400
      [] name = BOX -> 150
      [] name = AMMO -> 25
      [] name = AMMO_RIFLE -> 25
      [] name = SHELL -> 50

\* knowledge_base.item_block_sizes.get(item_name, "1")
item_block_sizes(name) == IF name = AMMO THEN 3 ELSE 1

\* knowledge_base.vehicles_fuel_properties of the vehicle breed
FUEL_CAPACITY == 100

BreedItemInfo(name, amount, is_visible) ==
    [game_item_name |-> name, amount |-> amount, is_visible |-> is_visible]

\* breeds_inventories of the human breed
HumanStandard ==
    <<BreedItemInfo(GUN, 1, TRUE), BreedItemInfo(BOX, 1, TRUE),
      BreedItemInfo(AMMO, 3, TRUE)>>

\* vehicle_inventories of the vehicle breed: the lists of the included
\* inventories are joined (lines 811-844), so an item can be listed twice;
\* the vehicle lists no weapon
VehicleStandard ==
    <<BreedItemInfo(BOX, 2, TRUE), BreedItemInfo(SHELL, 2, TRUE),
      BreedItemInfo(BOX, 2, TRUE)>>

EntityInventory(kind, sh, entries, resources, supplies, fuel) ==
    [kind |-> kind, shape |-> sh, inventory_entries |-> entries,
     inventory_matrix |-> None, item_counts |-> None,
     resources |-> resources, supplies |-> supplies, fuel |-> fuel]

Standard(inv) == IF inv.kind = "human" THEN HumanStandard ELSE VehicleStandard

\* round(x, 1) of x = n / d, in tenths: the nearest tenth, a tie to the even
\* one, as Python rounds a float that holds n / 10d exactly
RoundHalfEven(n, d) ==
    LET q == n \div d
        r == n % d
    IN  IF 2 * r < d THEN q
        ELSE IF 2 * r > d THEN q + 1
        ELSE IF q % 2 = 0 THEN q ELSE q + 1

\* item_counts.get(item_name, 0)
CountsGet(inv, name) ==
    IF name \in DOMAIN inv.item_counts.val THEN inv.item_counts.val[name] ELSE 0

\* a test that lets every cost pass
NotEnoughAp_never(pool, cost) == FALSE

\* self.knowledge_base.campaign_status_info.ap - cost < 0
NotEnoughAp(pool, cost) == pool - cost < 0

\* the steps of refill_*: what the step did to the inventory and to the pool;
\* raised names the exception that leaves the step
Outcome(inv, pool, kind, name, cost, skipped, raised, read, added) ==
    [inv |-> inv, ap |-> pool,
     step |-> [unit |-> 0, kind |-> kind, name |-> name, cost |-> cost,
               skipped |-> skipped, raised |-> raised, read |-> read, added |-> added]]

\* the step read no count
NoRead == [done |-> FALSE, got |-> 0, fresh |-> TRUE, actual |-> 0]

\* the step read item_counts.get(name, 0): the number it got, whether the
\* table was that of the entries as they stood, and the amount they held
Read(inv, name) ==
    [done |-> TRUE, got |-> CountsGet(inv, name),
     fresh |-> inv.item_counts.val = count_items_in_inventory(inv.inventory_entries),
     actual |-> AmountOf(inv.inventory_entries, name, 1)]

\* the item of the list is passed over (continue)
NoStep(inv, pool) ==
    Outcome(inv, pool, "none", <<>>, -1, FALSE, "none", NoRead, "none")

\* the entries of the inventory that are weapons (find_gun_entries_in_inventory)
GunEntries(inv) ==
    SelectSeq(inv.inventory_entries,
              LAMBDA e : convert_inventory_entry_to_game_item_info(e).game_item_name
                            \in weapons_list)

RECURSIVE AddStacks(_, _, _, _, _)
\* n calls of add_item_to_inventory(name, amount); the value of the last call
AddStacks(inv, name, amount, n, lastret) ==
    IF n = 0 THEN [inv |-> inv, ret |-> lastret]
    ELSE LET Called(r) ==
                 LET after == [inv EXCEPT !.inventory_entries = r.entries,
                                          !.inventory_matrix = r.matrix]
                 IN  IF r.err # "none" THEN [inv |-> after, ret |-> r.err]
                     ELSE AddStacks(after, name, amount, n - 1,
                                    IF r.ok THEN "True" ELSE "False")
         IN  Called(add_item_to_inventory(inv.shape, inv.inventory_entries,
                                          inv.inventory_matrix, name, amount))

\* refill_weapons, one item of the list (lines 251-276)
refill_weapons_item(inv, pool, item) ==
    LET name == item.game_item_name
        cost == item_weights(name)
    IN  IF ~item.is_visible \/ name \notin weapons_list THEN NoStep(inv, pool)
        ELSE IF NotEnoughAp(pool, cost)
        THEN Outcome(inv, pool, "weapon", name, cost, TRUE, "none", NoRead, "none")
        ELSE LET Added(r) ==
                     Outcome(r.inv, IF r.ret = "True" THEN pool - cost ELSE pool,
                             "weapon", name, cost, FALSE,
                             IF r.ret \in {"True", "False"} THEN "none" ELSE r.ret,
                             NoRead, r.ret)
             IN  Added(AddStacks(inv, name, 1, 1, "none"))

\* refill_equipment, one item of the list (lines 290-342)
refill_equipment_item(inv, pool, item) ==
    LET name == item.game_item_name
        have == CountsGet(inv, name)
        item_amount == item.amount - have
        cost == item_weights(name) * item_amount
        block == item_block_sizes(name)
    IN  IF name \in weapons_list \/ HasAmmoInName(name) \/ HasBulletInName(name)
           \/ ~item.is_visible
        THEN NoStep(inv, pool)
        ELSE IF have >= item.amount
        THEN Outcome(inv, pool, "equipment", name, -1, FALSE, "none", Read(inv, name), "none")
        ELSE IF NotEnoughAp(pool, cost)
        THEN Outcome(inv, pool, "equipment", name, cost, TRUE, "none", Read(inv, name), "none")
        ELSE LET Rest(full) ==
                     IF item_amount % block > 0 /\ full.ret \in {"none", "True", "False"}
                     THEN AddStacks(full.inv, name, item_amount % block, 1, full.ret)
                     ELSE full
                 Added(rest) ==
                     IF rest.ret \in {"True", "False"}
                     THEN Outcome(rest.inv, pool - cost, "equipment", name, cost, FALSE,
                                  "none", Read(inv, name), rest.ret)
                     ELSE Outcome(rest.inv, pool, "equipment", name, cost, FALSE,
                                  rest.ret, Read(inv, name), "none")
             IN  Added(Rest(AddStacks(inv, name, block, item_amount \div block, "none")))

\* _refill_ammo_item (lines 675-737): the call of line 696 passes
\* current_inventory_amount, which fill_item_in_inventory does not take, and
\* raises TypeError before anything is filled or added
refill_ammo_item(inv, pool, item) ==
    LET name == item.game_item_name
        current_amount == CountsGet(inv, name)
        cost == RoundHalfEven(item_weights(name) * (item.amount - current_amount), 10) * 10
    IN  IF current_amount >= item.amount
        THEN Outcome(inv, pool, "ammunition", name, -1, FALSE, "none", Read(inv, name), "none")
        ELSE IF NotEnoughAp(pool, cost)
        THEN Outcome(inv, pool, "ammunition", name, cost, TRUE, "none", Read(inv, name), "none")
        ELSE Outcome(inv, pool, "ammunition", name, cost, FALSE, "TypeError",
                     Read(inv, name), "none")

\* _refill_vehicle_standard_ammo with no target_amount (lines 561-608): the
\* call of line 581 raises TypeError in the same way
refill_vehicle_standard_ammo(inv, pool, item) ==
    LET name == item.game_item_name
        target_amount == item.amount
        current_amount == CountsGet(inv, name)
        cost == RoundHalfEven(item_weights(name) * (target_amount - current_amount), 10) * 10
    IN  IF current_amount >= target_amount
        THEN Outcome(inv, pool, "ammunition", name, -1, FALSE, "none", Read(inv, name), "none")
        ELSE IF NotEnoughAp(pool, cost)
        THEN Outcome(inv, pool, "ammunition", name, cost, TRUE, "none", Read(inv, name), "none")
        ELSE Outcome(inv, pool, "ammunition", name, cost, FALSE, "TypeError",
                     Read(inv, name), "none")

MAX_RESOURCES == 10
RESOURCE_MULTIPLIER == 10

\* refill_supplies_resources that pays and leaves the resources as they are
refill_supplies_resources_paid_only(inv, pool) ==
    LET missing_resources == (MAX_RESOURCES - inv.resources) * RESOURCE_MULTIPLIER
        cost == RoundHalfEven(missing_resources * 25, 10) * 10
    IN  Outcome(inv, pool - cost, "resources", <<>>, cost, FALSE, "none", NoRead, "none")

\* refill_supplies_resources (lines 749-763): 0.25 a resource
refill_supplies_resources(inv, pool) ==
    LET missing_resources == (MAX_RESOURCES - inv.resources) * RESOURCE_MULTIPLIER
        cost == RoundHalfEven(missing_resources * 25, 10) * 10
    IN  IF NotEnoughAp(pool, cost)
        THEN Outcome(inv, pool, "resources", <<>>, cost, TRUE, "none", NoRead, "none")
        ELSE Outcome([inv EXCEPT !.resources = MAX_RESOURCES], pool - cost,
                     "resources", <<>>, cost, FALSE, "none", NoRead, "none")

\* refill_supplies (lines 780-790): 0.15 a missing supply
refill_supplies(inv, pool) ==
    LET cost == RoundHalfEven(inv.supplies * 15, 10) * 10
    IN  IF NotEnoughAp(pool, cost)
        THEN Outcome(inv, pool, "supplies", <<>>, cost, TRUE, "none", NoRead, "none")
        ELSE Outcome([inv EXCEPT !.supplies = 0], pool - cost,
                     "supplies", <<>>, cost, FALSE, "none", NoRead, "none")

\* refill_fuel (lines 802-821): the fuel is kept in tenths, 0.25 a unit of fuel
refill_fuel(inv, pool) ==
    LET missing_fuel == FUEL_CAPACITY * 10 - inv.fuel
        cost == RoundHalfEven(missing_fuel * 25, 100) * 10
    IN  IF missing_fuel <= 0 THEN NoStep(inv, pool)
        ELSE IF NotEnoughAp(pool, cost)
        THEN Outcome(inv, pool, "fuel", <<>>, cost, TRUE, "none", NoRead, "none")
        ELSE Outcome([inv EXCEPT !.fuel = FUEL_CAPACITY * 10], pool - cost,
                     "fuel", <<>>, cost, FALSE, "none", NoRead, "none")

\* the ammunition items _refill_ammo_item is called for: for every weapon of
\* the inventory, the items of the standard list with "ammo" in the name that
\* _determine_ammo_type gives to the weapon (lines 357-393)
AmmoItemsOf(standard) ==
    SelectSeq(standard, LAMBDA item : item.game_item_name = AMMO)

AmmoCalls(inv) == Len(GunEntries(inv)) * Len(AmmoItemsOf(Standard(inv)))

\* the item name has (\d+)mm_ and .ammo in it (lines 438-440)
IsShellName(name) == name = SHELL

\* the inventories a squad can hold when it is loaded
HumanResources == {-1, 0, 7, 10}
VehicleSuppliesAndFuel == {<<-1, -10>>, <<4, 375>>, <<5, 1000>>, <<0, 0>>}
VehicleSaved == SavedInventories \ {<<Entry(GUN, "filled", 0, 0, 0), Entry(AMMO, "none", 0, 1, 0)>>}

\* entries of a save whose footprints share the cell (0, 0)
OverlappingSaved == <<Entry(AMMO_RIFLE, "none", 2, 0, 0), Entry(AMMO, "none", 3, 0, 0)>>

LoadedInventories ==
    {EntityInventory("human", <<2, 2>>, e, r, -1, -10) :
        e \in SavedInventories, r \in HumanResources}
    \cup {EntityInventory("human", <<2, 2>>, OverlappingSaved, 7, -1, -10)}
    \cup {EntityInventory("vehicle", <<4, 4>>, e, -1, sf[1], sf[2]) :
            e \in VehicleSaved, sf \in VehicleSuppliesAndFuel}

APValues == {0, 100, 1000, 100000}

At(unit, phase, i) == [unit |-> unit, phase |-> phase, i |-> i]

\* the next member of the loop of resupply_squad (lines 546-551)
NextUnit(u) ==
    IF u < Len(squads_inventories) THEN At(u + 1, "begin", 1) ELSE At(u, "show", 0)

\* what follows a part of refill_human_squad_member_inventory or
\* refill_vehicle_squad_member_inventory
PhaseAfter(u, kind, phase) ==
    CASE phase = "weapons" -> At(u, "equipment", 1)
      [] phase = "equipment" /\ kind = "human" -> At(u, "ammunition", 1)
      [] phase = "equipment" /\ kind = "vehicle" -> At(u, "vehicle_ammunition", 1)
      [] phase = "ammunition" -> At(u, "resources", 1)
      [] phase = "vehicle_ammunition" -> At(u, "supplies", 1)
      [] phase = "supplies" -> At(u, "fuel", 1)
      [] phase \in {"resources", "fuel"} -> NextUnit(u)

\* the turn of a loop over n items is over
AfterItem(u, kind, phase, i, n) ==
    IF i < n THEN At(u, phase, i + 1) ELSE PhaseAfter(u, kind, phase)

\* the step has run: an exception leaves refill_squad_member_inventory and
\* the handler that called it
Ran(o, u, next) ==
    /\ squads_inventories' = [squads_inventories EXCEPT ![u] = o.inv]
    /\ ap' = o.ap
    /\ step' = [o.step EXCEPT !.unit = u]
    /\ not_enough_ap' = not_enough_ap + (IF o.step.skipped THEN 1 ELSE 0)
    /\ pc' = IF o.step.raised # "none" THEN At(u, "raised", 0) ELSE next
    /\ UNCHANGED <<invVars, costVars, saveVars, kbVars, loadVars>>

InitRefill ==
    /\ squads_inventories \in
          UNION {[1 .. n -> LoadedInventories] : n \in 1 .. MaxUnits}
    /\ ap \in APValues
    /\ pc = At(1, "begin", 1)
    /\ step = NoStep(<<>>, 0).step
    /\ not_enough_ap = 0
    /\ InvIdle
    /\ CostIdle
    /\ SaveIdle
    /\ KBIdle
    /\ LoadIdle

\* lines 143-161 and 187-193: the grid, the counts, and refill_weapons when
\* a human holds no weapon
BeginRefill ==
    /\ pc.phase = "begin"
    /\ LET u == pc.unit
           inv == squads_inventories[u]
           built == create_inventory_matrix(inv.shape, inv.inventory_entries)
           ready == [inv EXCEPT !.inventory_matrix = Some(built.occ),
                                !.item_counts =
                                    Some(count_items_in_inventory(inv.inventory_entries))]
       IN  IF built.status # "ok"
           THEN Ran(Outcome(inv, ap, "begin", <<>>, -1, FALSE, built.status, NoRead, "none"),
                    u, pc)
           ELSE Ran(Outcome(ready, ap, "begin", <<>>, -1, FALSE, "none", NoRead, "none"),
                    u,
                    IF inv.kind = "human" /\ GunEntries(inv) = <<>>
                    THEN At(u, "weapons", 1) ELSE At(u, "equipment", 1))

RefillWeapon ==
    /\ pc.phase = "weapons"
    /\ LET u == pc.unit
           inv == squads_inventories[u]
       IN  Ran(refill_weapons_item(inv, ap, Standard(inv)[pc.i]),
               u, AfterItem(u, inv.kind, "weapons", pc.i, Len(Standard(inv))))

RefillEquipment ==
    /\ pc.phase = "equipment"
    /\ LET u == pc.unit
           inv == squads_inventories[u]
       IN  Ran(refill_equipment_item(inv, ap, Standard(inv)[pc.i]),
               u, AfterItem(u, inv.kind, "equipment", pc.i, Len(Standard(inv))))

RefillAmmunition ==
    /\ pc.phase = "ammunition"
    /\ LET u == pc.unit
           inv == squads_inventories[u]
           items == AmmoItemsOf(Standard(inv))
       IN  IF AmmoCalls(inv) = 0
           THEN Ran(NoStep(inv, ap), u, PhaseAfter(u, inv.kind, "ammunition"))
           ELSE Ran(refill_ammo_item(inv, ap, items[((pc.i - 1) % Len(items)) + 1]),
                    u, AfterItem(u, inv.kind, "ammunition", pc.i, AmmoCalls(inv)))

\* line 174
RefillResources ==
    /\ pc.phase = "resources"
    /\ LET u == pc.unit
           inv == squads_inventories[u]
       IN  Ran(IF inv.resources >= 0 THEN refill_supplies_resources(inv, ap)
               ELSE NoStep(inv, ap),
               u, PhaseAfter(u, inv.kind, "resources"))

\* lines 435-447, for a vehicle that lists no weapon
RefillVehicleAmmunition ==
    /\ pc.phase = "vehicle_ammunition"
    /\ LET u == pc.unit
           inv == squads_inventories[u]
           item == Standard(inv)[pc.i]
       IN  Ran(IF IsShellName(item.game_item_name) \/ HasBulletInName(item.game_item_name)
               THEN refill_vehicle_standard_ammo(inv, ap, item)
               ELSE NoStep(inv, ap),
               u, AfterItem(u, inv.kind, "vehicle_ammunition", pc.i, Len(Standard(inv))))

\* line 205
RefillSupplies ==
    /\ pc.phase = "supplies"
    /\ LET u == pc.unit
           inv == squads_inventories[u]
       IN  Ran(IF inv.supplies > 0 THEN refill_supplies(inv, ap) ELSE NoStep(inv, ap),
               u, PhaseAfter(u, inv.kind, "supplies"))

\* line 208
RefillFuel ==
    /\ pc.phase = "fuel"
    /\ LET u == pc.unit
           inv == squads_inventories[u]
       IN  Ran(IF inv.fuel >= 0 THEN refill_fuel(inv, ap) ELSE NoStep(inv, ap),
               u, PhaseAfter(u, inv.kind, "fuel"))

\* resupply_squad, lines 553-556: the member shown in the window, if there is
\* one, has its items counted
ShowSelectedUnit ==
    /\ pc.phase = "show"
    /\ \E sel \in 0 .. Len(squads_inventories) :
          squads_inventories' =
              IF sel = 0 THEN squads_inventories
              ELSE [squads_inventories EXCEPT ![sel].item_counts =
                       Some(count_items_in_inventory(squads_inventories[sel].inventory_entries))]
    /\ pc' = At(pc.unit, "done", 0)
    /\ step' = NoStep(<<>>, 0).step
    /\ UNCHANGED <<ap, not_enough_ap, invVars, costVars, saveVars, kbVars, loadVars>>

NextRefill ==
    \/ BeginRefill
    \/ RefillWeapon
    \/ RefillEquipment
    \/ RefillAmmunition
    \/ RefillResources
    \/ RefillVehicleAmmunition
    \/ RefillSupplies
    \/ RefillFuel
    \/ ShowSelectedUnit

SpecRefill == InitRefill /\ [][NextRefill]_vars

-----------------------------------------------------------------------------
(***************************************************************************)
(* The campaign save file and the functions of DataManager, UnitManager    *)
(* and InventoryManager that patch it.                                      *)
(*                                                                         *)
(* The text of the file is a sequence of lines.  A line is the record of   *)
(* its bytes in order:                                                      *)
(*      ind : the number of tab characters the line starts with,           *)
(*      k   : the keyword after the opening brace ("Inventory", "item",    *)
(*            "CampaignSquads", ...), "close" for a line that is only "}",  *)
(*      id  : the entity id that follows the keyword, "" when there is none,*)
(*      v   : the remaining tokens of the line, in order,                   *)
(*      n   : the number of a {current N} or {Remain N} group, -1 if none,  *)
(*      ws  : the number of blank characters between the last token and    *)
(*            the line end.                                                 *)
(* Two texts are byte-identical exactly when the sequences are equal.       *)
(* The entity ids of the saves of this section are "0x" followed by four   *)
(* hex digits, as generate_random_hex makes them (0x8000 .. 0xffff): none   *)
(* is the beginning of another.  Saves with ids of other lengths are the    *)
(* subject of the section on loading.                                       *)
(***************************************************************************)

Ln(ind, k, id, v, n, ws) ==
    [ind |-> ind, k |-> k, id |-> id, v |-> v, n |-> n, ws |-> ws]

DECEASED_MEMBER_ID == "0xffffffff"

\* the two units of the save
U1 == "0x8001"
U2 == "0x8002"

HUMAN_BREED == "mp/ger/rifleman"
ENTITY_BREED == "pz4h"

\* INVENTORY_HEADER_TEMPLATE, BOX_OPEN, BOX_CLEAR, the entries, BOX_CLOSE and
\* INVENTORY_CLOSE: the header has no leading tab and the last line no line end
prepare_inventory_for_saving(inv) ==
    <<Ln(0, "Inventory", inv.entity_id, <<>>, -1, 0),
      Ln(2, "box", "", <<>>, -1, 0),
      Ln(3, "clear", "", <<>>, -1, 0)>>
    \o inv.inventory_entries
    \o <<Ln(2, "close", "", <<>>, -1, 0), Ln(1, "close", "", <<>>, -1, 0)>>

\* re.sub parses the replacement as a template before it looks for a match:
\* a backslash followed by a letter that is no escape raises re.error
BAD_ESCAPE == "\\q"

HasBadEscape(frag) ==
    \E i \in DOMAIN frag : \E j \in DOMAIN frag[i].v : frag[i].v[j] = BAD_ESCAPE

\* CAMPAIGN_SQUADS_PATTERN: a tab, the marker and the line end right after it
IsSquadsOpen(l) == l.k = "CampaignSquads" /\ l.ind >= 1 /\ l.ws = 0 /\ l.v = <<>>

\* a replacement that writes the marker first and the fragment after it
SECTION_REPLACEMENT_after(frag, marker) ==
    <<marker>> \o <<[frag[1] EXCEPT !.ind = @ + 1]>> \o Tail(frag)

\* SECTION_REPLACEMENT "\t{}\n\\1": a tab, the fragment, a line end, then the
\* matched marker; the tabs of the marker line before the matched one stay in
\* front of the fragment
SECTION_REPLACEMENT(frag, marker) ==
    <<[frag[1] EXCEPT !.ind = @ + marker.ind]>> \o Tail(frag)
    \o <<[marker EXCEPT !.ind = 1]>>

RECURSIVE add_inventory_section(_, _)
add_inventory_section(text, frag) ==
    IF text = <<>> THEN <<>>
    ELSE (IF IsSquadsOpen(Head(text))
          THEN SECTION_REPLACEMENT(frag, Head(text))
          ELSE <<Head(text)>>)
         \o add_inventory_section(Tail(text), frag)

\* f"{INVENTORY_PREFIX}{inventory_id}" in content
HasInventoryPrefix(text, id) ==
    \E i \in DOMAIN text : text[i].k = "Inventory" /\ text[i].id = id

\* the last line after position i that is the close of a section
SectionCloseLast(text, i) ==
    LET js == {j \in DOMAIN text : j > i /\ text[j].k = "close" /\ text[j].ind = 1}
    IN  IF js = {} THEN 0 ELSE CHOOSE j \in js : \A h \in js : j >= h

\* the first line after position i that is the close of a section ("\t}")
SectionClose(text, i) ==
    LET js == {j \in DOMAIN text : j > i /\ text[j].k = "close" /\ text[j].ind = 1}
    IN  IF js = {} THEN 0 ELSE CHOOSE j \in js : \A h \in js : j <= h

\* re.sub(INVENTORY_SECTION_PATTERN.format(id), replacement, content, DOTALL):
\* every span from "{Inventory id" to the close of that section becomes the
\* fragment; the bytes of the open line before the brace and those of the
\* close line after the brace are outside the span
RECURSIVE SubInventorySection(_, _, _)
SubInventorySection(text, id, frag) ==
    IF text = <<>> THEN <<>>
    ELSE IF Head(text).k = "Inventory" /\ Head(text).id = id
              /\ SectionClose(text, 1) # 0
         THEN LET j == SectionClose(text, 1)
                  m == Len(frag)
              IN  <<[frag[1] EXCEPT !.ind = @ + Head(text).ind]>>
                  \o SubSeq(frag, 2, m - 1)
                  \o <<[frag[m] EXCEPT !.ws = text[j].ws]>>
                  \o SubInventorySection(SubSeq(text, j + 1, Len(text)), id, frag)
         ELSE <<Head(text)>> \o SubInventorySection(Tail(text), id, frag)

\* DataManager.replace_inventory_section; raised is re.error
replace_inventory_section(text, id, frag) ==
    IF HasBadEscape(frag) THEN [raised |-> TRUE, text |-> text]
    ELSE IF ~HasInventoryPrefix(text, id)
         THEN [raised |-> FALSE, text |-> add_inventory_section(text, frag)]
         ELSE [raised |-> FALSE, text |-> SubInventorySection(text, id, frag)]

\* re.sub of a pattern scoped to breed and id by CURRENT_VALUE_REPLACEMENT:
\* inside the block of that entity the number of the group named key is replaced
PatchCurrent(text, breed, id, key, value) ==
    [i \in DOMAIN text |->
        IF /\ text[i].k = key
           /\ \E o \in DOMAIN text :
                 /\ o < i
                 /\ text[o].k \in {"Human", "Entity"}
                 /\ text[o].id = id /\ text[o].v = <<breed>>
                 /\ SectionClose(text, o) > i
        THEN [text[i] EXCEPT !.n = value]
        ELSE text[i]]

replace_supplies_resources_section(text, inv) ==
    PatchCurrent(text, inv.entity_breed, inv.entity_id, "resources", inv.resources)

replace_supplies_section(text, inv) ==
    PatchCurrent(text, inv.entity_breed, inv.entity_id, "supply_zone", inv.supplies)

replace_fuel_section(text, inv) ==
    PatchCurrent(text, inv.entity_breed, inv.entity_id, "FuelBag", inv.fuel)

\* DataManager.save_squad_member_inventory: the text it writes to the file, or
\* raised when an exception leaves the file as it was
save_squad_member_inventory(text, inv) ==
    LET r  == replace_inventory_section(text, inv.entity_id,
                                        prepare_inventory_for_saving(inv))
        c1 == IF inv.resources >= 0
              THEN replace_supplies_resources_section(r.text, inv) ELSE r.text
        c2 == IF inv.supplies >= 0 THEN replace_supplies_section(c1, inv) ELSE c1
        c3 == IF inv.fuel >= 0 THEN replace_fuel_section(c2, inv) ELSE c2
    IN  IF r.raised THEN r ELSE [raised |-> FALSE, text |-> c3]

\* the block with the entries in the opposite order
prepare_squads_entries_reversed(entries) ==
    <<Ln(1, "CampaignSquads", "", <<>>, -1, 0)>>
    \o [i \in DOMAIN entries |->
           Ln(2, "squad", "", entries[Len(entries) + 1 - i], -1, 0)]
    \o <<Ln(1, "close", "", <<>>, -1, 0)>>

\* TAB_TAB_FORMAT of every entry, NEWLINE_JOIN, CAMPAIGN_SQUADS_FORMAT
prepare_squads_entries_for_saving(entries) ==
    <<Ln(1, "CampaignSquads", "", <<>>, -1, 0)>>
    \o [i \in DOMAIN entries |-> Ln(2, "squad", "", entries[i], -1, 0)]
    \o <<Ln(1, "close", "", <<>>, -1, 0)>>

\* re.sub(SAVE_SQUADS_PATTERN, block, content, DOTALL): from the marker line to
\* the first later "\n\t}" that leaves the middle group a place; the bytes
\* after that brace are kept
RECURSIVE save_squads_entries(_, _)
save_squads_entries(text, block) ==
    IF text = <<>> THEN <<>>
    ELSE IF IsSquadsOpen(Head(text)) /\ SectionClose(text, 2) # 0
         THEN LET j == SectionClose(text, 2)
                  m == Len(block)
              IN  <<[block[1] EXCEPT !.ind = Head(text).ind]>>
                  \o SubSeq(block, 2, m - 1)
                  \o <<[block[m] EXCEPT !.ws = text[j].ws]>>
                  \o save_squads_entries(SubSeq(text, j + 1, Len(text)), block)
         ELSE <<Head(text)>> \o save_squads_entries(Tail(text), block)

\* TAB_FORMAT of every entry, EMPTY_JOIN
prepare_new_unit_entries_for_saving(entries) ==
    [i \in DOMAIN entries |-> [entries[i] EXCEPT !.ind = @ + 1]]

\* USER_PLAYER_PATTERN: a tab and the opening of the tag group of the player
IsUserPlayer(l) == l.k = "Tags" /\ l.ind >= 1 /\ l.v = <<"_user", "player">>

\* re.sub(USER_PLAYER_PATTERN, units + "\\1", content, count=1) with the units
\* written behind every anchor (no count)
RECURSIVE save_new_unit_entries_every(_, _)
save_new_unit_entries_every(text, units) ==
    IF text = <<>> THEN <<>>
    ELSE (IF IsUserPlayer(Head(text)) THEN units ELSE <<>>)
         \o <<Head(text)>> \o save_new_unit_entries_every(Tail(text), units)

\* re.sub(USER_PLAYER_PATTERN, units + "\\1", content, count=1)
save_new_unit_entries(text, units) ==
    LET as == {i \in DOMAIN text : IsUserPlayer(text[i])}
    IN  IF as = {} THEN text
        ELSE LET a == CHOOSE i \in as : \A h \in as : i <= h
             IN  SubSeq(text, 1, a - 1) \o units \o SubSeq(text, a, Len(text))

\* str.replace(DECEASED_MEMBER_ID, new_member_id, 1) on a squad entry
ReplaceFirstDeceased(entry, new_id) ==
    LET ds == {i \in DOMAIN entry : entry[i] = DECEASED_MEMBER_ID}
    IN  IF ds = {} THEN entry
        ELSE [entry EXCEPT ![CHOOSE i \in ds : \A h \in ds : i <= h] = new_id]

\* the unit entry create_new_squad_member returns: '{Human "breed" id}\n'
UnitEntry(breed, new_id) ==
    Ln(0, IF breed = HUMAN_BREED THEN "Human" ELSE "Entity", new_id,
       <<breed, "}">>, -1, 0)

\* str.rstrip()
rstrip(line) == [line EXCEPT !.ws = 0]

\* a squad line with every token equal to tok taken out (re.sub of " tok")
RemoveToken(v, tok) ==
    LET keep == {i \in DOMAIN v : v[i] # tok}
        F[i \in 0 .. Len(v)] ==
            IF i = 0 THEN <<>>
            ELSE IF i \in keep THEN Append(F[i - 1], v[i]) ELSE F[i - 1]
    IN  F[Len(v)]

\* UnitManager._move_unit_to_squad
move_unit_to_squad(line, scan, unit_squad_id, unit_id, target_squad_id) ==
    LET l1 == IF scan = unit_squad_id
              THEN [line EXCEPT !.v = RemoveToken(@, unit_id)] ELSE line
    IN  IF scan = target_squad_id
        THEN [l1 EXCEPT !.v = Append(@, unit_id)] ELSE l1

\* UnitManager._exchange_units
exchange_units(line, scan, unit_squad_id, unit_id, target_squad_id, target_unit_id, target_unit_position) ==
    IF scan = unit_squad_id
    THEN LET hs == {i \in DOMAIN line.v : line.v[i] = unit_id}
         IN  IF hs = {} THEN line
             ELSE [line EXCEPT !.v[CHOOSE i \in hs : \A h \in hs : i <= h] =
                                    target_unit_id]
    ELSE IF scan = target_squad_id
              /\ target_unit_position + 3 \in DOMAIN line.v
              /\ line.v[target_unit_position + 3] = target_unit_id
         THEN [line EXCEPT !.v[target_unit_position + 3] = unit_id]
         ELSE line

\* UnitManager.move_unit: target_unit_id is "" for a plain move
move_unit(text, unit_squad_id, unit_id, target_squad_id, target_unit_id, target_unit_position) ==
    LET ms == {i \in DOMAIN text : text[i].k = "CampaignSquads"}
        m  == IF ms = {} THEN Len(text) + 1
              ELSE CHOOSE i \in ms : \A h \in ms : i <= h
    IN  [i \in DOMAIN text |->
            LET line == rstrip(text[i])
                scan == i - m - 1
            IN  IF i <= m THEN line
                ELSE IF target_unit_id = ""
                     THEN move_unit_to_squad(line, scan, unit_squad_id, unit_id,
                                             target_squad_id)
                     ELSE exchange_units(line, scan, unit_squad_id, unit_id,
                                         target_squad_id, target_unit_id,
                                         target_unit_position)]

(* The campaign save, InventoryManager.save_changes and the unit moves *)

MaxNewUnits == 2

ITEM_A == Ln(3, "item", "", <<"a">>, -1, 0)
ITEM_B == Ln(3, "item", "", <<"b">>, -1, 0)
ITEM_BAD == Ln(3, "item", "", <<BAD_ESCAPE>>, -1, 0)

\* the inventory section of a unit as the save holds it
FileSection(id) ==
    <<Ln(1, "Inventory", id, <<>>, -1, 0), Ln(2, "box", "", <<>>, -1, 0),
      Ln(3, "clear", "", <<>>, -1, 0), ITEM_A,
      Ln(2, "close", "", <<>>, -1, 0), Ln(1, "close", "", <<>>, -1, 0)>>

SavedRoster ==
    <<  <<"a", "0", U1, DECEASED_MEMBER_ID>>,
        <<"b", "0", U2, DECEASED_MEMBER_ID, DECEASED_MEMBER_ID>>  >>

\* the roster after the unit manager has moved the slot of the deceased member
\* of squad a to squad b (move_unit as a plain move)
MovedRoster ==
    <<  <<"a", "0", U1>>,
        <<"b", "0", U2, DECEASED_MEMBER_ID, DECEASED_MEMBER_ID, DECEASED_MEMBER_ID>>  >>

\* the roster after the unit manager has exchanged the two living units
\* (move_unit as an exchange)
ExchangedRoster ==
    <<  <<"a", "0", U2, DECEASED_MEMBER_ID>>,
        <<"b", "0", U1, DECEASED_MEMBER_ID, DECEASED_MEMBER_ID>>  >>

\* a save: the blocks of the two units, the anchor of the player, the
\* inventory sections of the units in withSection, the roster and the rest;
\* w blanks end the lines the patterns of the editor do not look at
SavedText(withSection, w, roster) ==
    <<Ln(1, "Human", U1, <<HUMAN_BREED>>, -1, 0),
      Ln(2, "resources", "", <<>>, 3, w),
      Ln(1, "close", "", <<>>, -1, 0),
      Ln(1, "Entity", U2, <<ENTITY_BREED>>, -1, 0),
      Ln(2, "supply_zone", "", <<>>, 4, 0),
      Ln(2, "FuelBag", "", <<>>, 20, 0),
      Ln(1, "close", "", <<>>, -1, 0),
      Ln(1, "Tags", "", <<"_user", "player">>, -1, 0)>>
    \o (IF U1 \in withSection THEN FileSection(U1) ELSE <<>>)
    \o (IF U2 \in withSection THEN FileSection(U2) ELSE <<>>)
    \o prepare_squads_entries_for_saving(roster)
    \o <<Ln(1, "Tags", "", <<"_user", "player">>, -1, 0),
         Ln(0, "close", "", <<>>, -1, w)>>

EntityOf(id, breed, entries, resources, supplies, fuel) ==
    [entity_id |-> id, entity_breed |-> breed, inventory_entries |-> entries,
     resources |-> resources, supplies |-> supplies, fuel |-> fuel]

-----------------------------------------------------------------------------
(***************************************************************************)
(* Loading a squad: GameManager.get_all_inventories_for_squad and the       *)
(* extract_ functions of DataManager.  The save is read line by line.  "0x" *)
(* occurs in a line only at the start of an id, hence the text of id E      *)
(* occurs in a line exactly when E is the beginning of the id of that line: *)
(* when E followed by some tail is that id.                                 *)
(***************************************************************************)

ID_A == "0x8001"
ID_AB == "0x80012"
ID_C == "0x8002"

LoadIds == {ID_A, ID_AB, ID_C}

\* what follows an id of the model in a longer id of the model, and nothing
Tails == {"", "2", "ffff"}

\* squad_member_id in line
IdInLine(squad_member_id, line) ==
    \E tail \in Tails : squad_member_id \o tail = line.id

\* ENTITY_MARKER in line or HUMAN_MARKER in line
HasUnitMarker(line) == line.k \in {"Entity", "Human"}

\* subline == TAB_CLOSE
IsTabClose(line) == line.ind = 1 /\ line.k = "close" /\ line.ws = 0

\* the inner loops "for subline in file": the position of the first TAB_CLOSE
\* at or after i, the last line when the file ends before one
RECURSIVE ReadToTabClose(_, _)
ReadToTabClose(text, i) ==
    IF i >= Len(text) THEN Len(text)
    ELSE IF IsTabClose(text[i]) THEN i
         ELSE ReadToTabClose(text, i + 1)

\* the loop of extract_squad_member_inventory from line i on:
\* object_properties_entry and inventory_entries
RECURSIVE ExtractScan(_, _, _, _)
ExtractScan(text, i, squad_member_id, object_properties_entry) ==
    IF i > Len(text)
    THEN [props |-> object_properties_entry, entries |-> <<>>]
    ELSE IF IdInLine(squad_member_id, text[i]) /\ HasUnitMarker(text[i])
         THEN LET c == ReadToTabClose(text, i + 1)
              IN  ExtractScan(text, c + 1, squad_member_id,
                              object_properties_entry \o SubSeq(text, i + 1, c))
         ELSE IF text[i].k = "Inventory" /\ IdInLine(squad_member_id, text[i])
              THEN LET c == ReadToTabClose(text, i + 1)
                       sub == SubSeq(text, i + 1, c)
                   IN  [props |-> object_properties_entry,
                        entries |-> SelectSeq(sub, LAMBDA l : l.k = "item")]
              ELSE ExtractScan(text, i + 1, squad_member_id,
                               object_properties_entry)

\* re.search(pattern, object_properties_entry): the number of the first group
\* of that keyword, -1 without a match
FirstCurrent(props, k) ==
    LET hs == {i \in DOMAIN props : props[i].k = k}
    IN  IF hs = {} THEN -1
        ELSE props[CHOOSE i \in hs : \A h \in hs : i <= h].n

extract_squad_member_inventory(text, squad_member_id, squad_member_breed) ==
    LET r == ExtractScan(text, 1, squad_member_id, <<>>)
    IN  EntityOf(squad_member_id, squad_member_breed, r.entries,
                 FirstCurrent(r.props, "resources"),
                 FirstCurrent(r.props, "supply_zone"),
                 FirstCurrent(r.props, "FuelBag"))

\* the breed of the first line that holds the id and a unit marker; the
\* local breed is unbound when there is no such line
extract_squad_member_breed(text, squad_member_id) ==
    LET hs == {i \in DOMAIN text :
                  IdInLine(squad_member_id, text[i]) /\ HasUnitMarker(text[i])}
    IN  IF hs = {} THEN "UnboundLocalError"
        ELSE text[CHOOSE i \in hs : \A h \in hs : i <= h].v[1]

\* the block of a unit and its inventory section in the save
UnitBlock(kind, id, breed, key, n) ==
    <<Ln(1, kind, id, <<breed>>, -1, 0),
      Ln(2, key, "", <<>>, n, 0),
      Ln(1, "close", "", <<>>, -1, 0)>>

InventoryBlock(id, item) ==
    <<Ln(1, "Inventory", id, <<>>, -1, 0), Ln(2, "box", "", <<>>, -1, 0),
      item,
      Ln(2, "close", "", <<>>, -1, 0), Ln(1, "close", "", <<>>, -1, 0)>>

\* a save with a human and a vehicle: their blocks in the order human,
\* vehicle, the inventory sections of the units of withSection in either order
LoadedText(h, e, withSection, humanFirst) ==
    LET hs == IF h \in withSection THEN InventoryBlock(h, ITEM_A) ELSE <<>>
        es == IF e \in withSection THEN InventoryBlock(e, ITEM_B) ELSE <<>>
    IN  UnitBlock("Human", h, HUMAN_BREED, "resources", 3)
        \o UnitBlock("Entity", e, ENTITY_BREED, "supply_zone", 4)
        \o (IF humanFirst THEN hs \o es ELSE es \o hs)
        \o <<Ln(0, "close", "", <<>>, -1, 0)>>

InitLoad ==
    /\ InvIdle
    /\ CostIdle
    /\ RefillIdle
    /\ SaveIdle
    /\ KBIdle
    /\ \E h \in LoadIds, e \in LoadIds, humanFirst \in BOOLEAN, lead \in BOOLEAN :
          /\ h # e
          /\ \E withSection \in SUBSET {h, e} :
                campaign_file = LoadedText(h, e, withSection, humanFirst)
          /\ squad_members = IF lead THEN <<h, e>> ELSE <<e, h>>
    /\ loaded = <<>>

\* one round of the loop of get_all_inventories_for_squad
LoadSquadMember ==
    /\ Len(loaded) < Len(squad_members)
    /\ LET squad_member_id == squad_members[Len(loaded) + 1]
           squad_member_breed ==
               extract_squad_member_breed(campaign_file, squad_member_id)
       IN  loaded' = Append(loaded,
                 extract_squad_member_inventory(campaign_file, squad_member_id,
                                                squad_member_breed))
    /\ UNCHANGED <<campaign_file, squad_members>>
    /\ UNCHANGED <<invVars, costVars, refillVars, saveVars, kbVars>>

NextLoad == LoadSquadMember

SpecLoad == InitLoad /\ [][NextLoad]_vars

-----------------------------------------------------------------------------
(* The session of the inventory manager: new members, saving, loading again *)

\* HEX_RANGE_MIN (0x8000) and HEX_RANGE_MAX (0xFFFF)
HEX_RANGE_MIN == 32768
HEX_RANGE_MAX == 65535

HexDigit(d) ==
    CASE d = 0 -> "0" [] d = 1 -> "1" [] d = 2 -> "2" [] d = 3 -> "3"
      [] d = 4 -> "4" [] d = 5 -> "5" [] d = 6 -> "6" [] d = 7 -> "7"
      [] d = 8 -> "8" [] d = 9 -> "9" [] d = 10 -> "a" [] d = 11 -> "b"
      [] d = 12 -> "c" [] d = 13 -> "d" [] d = 14 -> "e" [] d = 15 -> "f"

\* f"{random_int:x}"
RECURSIVE Hex(_)
Hex(n) == IF n < 16 THEN HexDigit(n) ELSE Hex(n \div 16) \o HexDigit(n % 16)

\* InventoryManager.generate_random_hex for the value random.randint returned
generate_random_hex(random_int) == "0x" \o Hex(random_int)

\* the values random.randint(HEX_RANGE_MIN, HEX_RANGE_MAX) returns here: the
\* two ends and the id of a unit of the save
RandomInts == {HEX_RANGE_MIN, HEX_RANGE_MIN + 1, HEX_RANGE_MAX}

\* the values of the calls of generate_random_hex that one call of
\* refill_missing_squad_members accepts, in order
DrawSeqs == UNION {[1 .. n -> RandomInts] : n \in 0 .. MaxNewUnits}

\* knowledge_base.squad_compositions[squad_name].members after the
\* substitution of lines 854-866, in the order of the dict
StandardMembers(squad_name) ==
    IF squad_name = "a" THEN <<[breed |-> HUMAN_BREED, amount |-> 2]>>
    ELSE <<[breed |-> ENTITY_BREED, amount |-> 2],
           [breed |-> HUMAN_BREED, amount |-> 1]>>

\* knowledge_base.infantry_costs and vehicles_costs, in tenths
UnitCost(breed) == IF breed = HUMAN_BREED THEN 10 ELSE 30

MPValues == {0, 10, 50}

\* sum(d.values())
RECURSIVE SumAmounts(_)
SumAmounts(members) ==
    IF members = <<>> THEN 0 ELSE Head(members).amount + SumAmounts(Tail(members))

\* the keys of a dict filled in the order of a list
RECURSIVE Keys(_)
Keys(ids) ==
    IF ids = <<>> THEN <<>>
    ELSE LET front == Keys(SubSeq(ids, 1, Len(ids) - 1))
             id == ids[Len(ids)]
         IN  IF \E i \in DOMAIN front : front[i] = id THEN front
             ELSE Append(front, id)

\* DataManager.extract_squads_information: the lines after the marker up to
\* the first one that holds no {...}
extract_squads_information(text, keep_deceased_members) ==
    LET ms == {i \in DOMAIN text : text[i].k = "CampaignSquads"}
        m  == CHOOSE i \in ms : \A h \in ms : i <= h
        ends == {i \in (m + 1) .. (Len(text) + 1) :
                    i = Len(text) + 1 \/ text[i].k # "squad"}
        e  == CHOOSE i \in ends : \A h \in ends : i <= h
        entries == [i \in 1 .. (e - m - 1) |-> text[m + i].v]
    IN  IF ms = {} THEN [squads |-> <<>>, squads_entries |-> <<>>]
        ELSE [squads |->
                 [i \in DOMAIN entries |->
                     [squad_name |-> entries[i][1],
                      squad_members |->
                          SelectSeq(SubSeq(entries[i], 3, Len(entries[i])),
                                    LAMBDA id : keep_deceased_members
                                                  \/ id # DECEASED_MEMBER_ID)]],
              squads_entries |-> entries]

\* GameManager.get_all_inventories_for_squad: the inventories of the members
RECURSIVE get_all_inventories_for_squad(_, _)
get_all_inventories_for_squad(text, members) ==
    IF members = <<>> THEN <<>>
    ELSE <<extract_squad_member_inventory(text, Head(members),
               extract_squad_member_breed(text, Head(members)))>>
         \o get_all_inventories_for_squad(text, Tail(members))

\* GameManager.get_all_inventories, the squads one after the other
RECURSIVE get_all_inventories(_, _)
get_all_inventories(text, sq) ==
    IF sq = <<>> THEN <<>>
    ELSE get_all_inventories_for_squad(text, Keys(Head(sq).squad_members))
         \o get_all_inventories(text, Tail(sq))

\* InventoryManager.get_all_squad_members_ids
RECURSIVE get_all_squad_members_ids(_)
get_all_squad_members_ids(sq) ==
    IF sq = <<>> THEN <<>>
    ELSE Keys(Head(sq).squad_members) \o get_all_squad_members_ids(Tail(sq))

\* the entries the two units hold in memory when save_changes is called
EditedEntries ==
    { <<<<ITEM_A>>, <<>>>>, <<<<ITEM_A, ITEM_B>>, <<ITEM_A>>>>,
      <<<<ITEM_BAD>>, <<>>>>, <<<<ITEM_A>>, <<ITEM_BAD>>>> }

InitSave ==
    /\ InvIdle
    /\ CostIdle
    /\ RefillIdle
    /\ KBIdle
    /\ LoadIdle
    /\ \E withSection \in SUBSET {U1, U2}, w \in {0, 1},
          roster \in {SavedRoster, MovedRoster, ExchangedRoster} :
           content = SavedText(withSection, w, roster)
    /\ backup = <<>>
    /\ \E e \in EditedEntries, r \in {-1, 5} :
           save_inventories =
               <<EntityOf(U1, HUMAN_BREED, e[1], r, -1, -1),
                 EntityOf(U2, ENTITY_BREED, e[2], -1, 7, 55)>>
    /\ squads_entries = extract_squads_information(content, FALSE).squads_entries
    /\ squads = extract_squads_information(content, FALSE).squads
    /\ squad_members_ids = get_all_squad_members_ids(squads)
    /\ mp \in MPValues
    /\ new_unit_entries = <<>>
    /\ new_units_resupplied_squads = {}
    /\ save_pc = [phase |-> "idle", k |-> 0]
    /\ save_last = [op |-> "none"]

SaveFrame == UNCHANGED <<invVars, costVars, refillVars, kbVars, loadVars>>

SaveStopped == save_pc.phase \in {"idle", "raised"}

\* member_counts of lines 841-849: the loaded members of the squad by breed
MemberCount(members, breed) ==
    Cardinality({i \in DOMAIN members :
        \E k \in DOMAIN save_inventories :
            /\ save_inventories[k].entity_id = members[i]
            /\ save_inventories[k].entity_breed = breed})

\* the rounds of the loops of lines 887-891: every standard member as often
\* as the squad lacks it
RECURSIVE MissingSlots(_, _)
MissingSlots(standard, members) ==
    IF standard = <<>> THEN <<>>
    ELSE LET missing == Head(standard).amount
                            - MemberCount(members, Head(standard).breed)
         IN  [i \in 1 .. missing |-> Head(standard).breed]
             \o MissingSlots(Tail(standard), members)

\* InventoryManager.create_new_squad_member: the id of the accepted call of
\* generate_random_hex takes the first deceased slot of the squad entry
create_new_squad_member(st, breed) ==
    LET new_member_id == generate_random_hex(Head(st.draws))
    IN  [st EXCEPT
            !.fresh = @ /\ \A i \in DOMAIN st.ids : st.ids[i] # new_member_id,
            !.entry = ReplaceFirstDeceased(@, new_member_id),
            !.ids = Append(@, new_member_id),
            !.units = Append(@, UnitEntry(breed, new_member_id)),
            !.draws = Tail(@)]

\* the rounds without the test of lines 892-896
RECURSIVE CreateLoop_nobreak(_, _, _)
CreateLoop_nobreak(slots, room, st) ==
    IF slots = <<>> THEN st
    ELSE LET breed == Head(slots)
             cost == UnitCost(breed)
         IN  IF st.mp - cost < 0
             THEN CreateLoop_nobreak(Tail(slots), room, st)
             ELSE IF st.draws = <<>> THEN [st EXCEPT !.fresh = FALSE]
             ELSE CreateLoop_nobreak(Tail(slots), room,
                                     [create_new_squad_member(st, breed) EXCEPT
                                         !.mp = @ - cost])

\* the rounds of lines 887-930, room being the number of members the squad
\* lacks; fresh tells that every id was accepted by the loop of line 955 and
\* that the draws sufficed
RECURSIVE CreateLoop(_, _, _)
CreateLoop(slots, room, st) ==
    IF slots = <<>> THEN st
    ELSE LET breed == Head(slots)
             cost == UnitCost(breed)
         IN  IF Len(st.units) >= room
             THEN CreateLoop(Tail(slots), room, st)
             ELSE IF st.mp - cost < 0
             THEN CreateLoop(Tail(slots), room, st)
             ELSE IF st.draws = <<>> THEN [st EXCEPT !.fresh = FALSE]
             ELSE CreateLoop(Tail(slots), room,
                             [create_new_squad_member(st, breed) EXCEPT
                                 !.mp = @ - cost])

\* InventoryManager.refill_missing_squad_members(squad_id), called by
\* add_missing_squad_members for a squad that has members
RefillMissingSquadMembers ==
    /\ SaveStopped
    /\ \E squad_id \in 0 .. (Len(squads) - 1), draws \in DrawSeqs :
          LET members == Keys(squads[squad_id + 1].squad_members)
              standard == StandardMembers(squads[squad_id + 1].squad_name)
              number_of_current_squad_members == Len(members)
              number_of_standard_squad_members == SumAmounts(standard)
              made == CreateLoop(MissingSlots(standard, members),
                          number_of_standard_squad_members
                              - number_of_current_squad_members,
                          [entry |-> squads_entries[squad_id + 1], units |-> <<>>,
                           ids |-> squad_members_ids, mp |-> mp,
                           draws |-> draws, fresh |-> TRUE])
          IN  /\ members # <<>>
              /\ IF \/ number_of_current_squad_members
                          >= number_of_standard_squad_members
                    \/ squad_id \in new_units_resupplied_squads
                 THEN /\ draws = <<>>
                      /\ save_last' = [op |-> "refill_missing", squad_id |-> squad_id,
                                       ids |-> <<>>]
                      /\ UNCHANGED <<squads_entries, new_unit_entries,
                                     squad_members_ids, mp,
                                     new_units_resupplied_squads>>
                 ELSE /\ made.fresh
                      /\ made.draws = <<>>
                      /\ Len(new_unit_entries) + Len(made.units) <= MaxNewUnits
                      /\ squads_entries' =
                             [squads_entries EXCEPT ![squad_id + 1] = made.entry]
                      /\ new_unit_entries' = new_unit_entries \o made.units
                      /\ squad_members_ids' = made.ids
                      /\ mp' = made.mp
                      /\ new_units_resupplied_squads' =
                             IF made.units = <<>> THEN new_units_resupplied_squads
                             ELSE new_units_resupplied_squads \cup {squad_id}
                      /\ save_last' =
                             [op |-> "refill_missing", squad_id |-> squad_id,
                              ids |-> SubSeq(made.ids, Len(squad_members_ids) + 1,
                                             Len(made.ids))]
    /\ UNCHANGED <<content, backup, save_inventories, squads, save_pc>>
    /\ SaveFrame

\* save_changes: create_campaign_file_backup
BeginSave ==
    /\ SaveStopped
    /\ backup' = content
    /\ save_pc' = [phase |-> "inventories", k |-> 0]
    /\ save_last' = [op |-> "backup"]
    /\ UNCHANGED <<content, save_inventories, squads_entries, new_unit_entries,
                   new_units_resupplied_squads, squad_members_ids, squads, mp>>
    /\ SaveFrame

\* save_changes: one round of the loop over the inventories
SaveSquadMemberInventory ==
    /\ save_pc.phase = "inventories"
    /\ save_pc.k < Len(save_inventories)
    /\ LET inv == save_inventories[save_pc.k + 1]
           r   == save_squad_member_inventory(content, inv)
       IN  /\ content' = r.text
           /\ save_pc' = IF r.raised THEN [phase |-> "raised", k |-> save_pc.k]
                         ELSE [save_pc EXCEPT !.k = @ + 1]
           /\ save_last' = [op |-> "save_inventory", id |-> inv.entity_id,
                            raised |-> r.raised,
                            had |-> HasInventoryPrefix(content, inv.entity_id)]
    /\ UNCHANGED <<backup, save_inventories, squads_entries, new_unit_entries,
                   new_units_resupplied_squads, squad_members_ids, squads, mp>>
    /\ SaveFrame

\* save_new_squad_members: save_squads_entries
SaveSquadsEntries ==
    /\ save_pc.phase = "inventories"
    /\ save_pc.k = Len(save_inventories)
    /\ new_unit_entries # <<>>
    /\ content' = save_squads_entries(content,
                      prepare_squads_entries_for_saving(squads_entries))
    /\ save_pc' = [phase |-> "units", k |-> save_pc.k]
    /\ save_last' = [op |-> "save_squads"]
    /\ UNCHANGED <<backup, save_inventories, squads_entries, new_unit_entries,
                   new_units_resupplied_squads, squad_members_ids, squads, mp>>
    /\ SaveFrame

\* a list left as it is
clear_nothing(entries) == entries

\* list.clear()
clear(entries) == <<>>

\* save_new_squad_members: save_new_unit_entries, then new_unit_entries.clear()
SaveNewUnitEntries ==
    /\ save_pc.phase = "units"
    /\ content' = save_new_unit_entries(content,
                      prepare_new_unit_entries_for_saving(new_unit_entries))
    /\ new_unit_entries' = clear(new_unit_entries)
    /\ save_pc' = [phase |-> "status", k |-> save_pc.k]
    /\ save_last' = [op |-> "save_units", n |-> Len(new_unit_entries)]
    /\ UNCHANGED <<backup, save_inventories, squads_entries,
                   new_units_resupplied_squads, squad_members_ids, squads, mp>>
    /\ SaveFrame

\* save_changes: save_campaign_status_info and save_campaign_file end the
\* call, and the window loads the squads and the inventories again
\* (inventory_manager_gui.py:618-622)
FinishSave ==
    /\ \/ save_pc.phase = "status"
       \/ /\ save_pc.phase = "inventories"
          /\ save_pc.k = Len(save_inventories)
          /\ new_unit_entries = <<>>
    /\ LET read == extract_squads_information(content, FALSE)
           inventories == get_all_inventories(content, read.squads)
       IN  /\ squads' = read.squads
           /\ squads_entries' = read.squads_entries
           /\ save_inventories' = inventories
           /\ squad_members_ids' = get_all_squad_members_ids(read.squads)
           /\ save_pc' =
                  IF \E k \in DOMAIN inventories :
                         inventories[k].entity_breed = "UnboundLocalError"
                  THEN [phase |-> "raised", k |-> 0]
                  ELSE [phase |-> "idle", k |-> 0]
    /\ save_last' = [op |-> "saved"]
    /\ UNCHANGED <<content, backup, new_unit_entries, new_units_resupplied_squads, mp>>
    /\ SaveFrame

\* the ids of squad line number squad_id of the roster in the file
RosterIds(text, squad_id) ==
    LET ms == {i \in DOMAIN text : text[i].k = "CampaignSquads"}
        m  == CHOOSE i \in ms : \A h \in ms : i <= h
        v  == text[m + 1 + squad_id].v
    IN  SubSeq(v, 3, Len(v))

\* UnitManager.move_unit: a move of a unit of squad s to another squad, or an
\* exchange of it with the member at a position of squad t.  The window of
\* the unit manager passes another squad as t (unit_manager_gui.py:462-464);
\* move_unit itself takes any two squad indices, and the exchange of two
\* different members of one squad is among its inputs here
MoveUnit ==
    /\ SaveStopped
    /\ \E s \in {0, 1}, t \in {0, 1}, exchange \in BOOLEAN :
           LET sids == RosterIds(content, s)
               tids == RosterIds(content, t)
           IN  \E a \in DOMAIN sids :
                   IF exchange
                   THEN \E b \in DOMAIN tids :
                           /\ s = t => sids[a] # tids[b]
                           /\ content' = move_unit(content, s, sids[a], t,
                                                   tids[b], b - 1)
                           /\ save_last' = [op |-> "exchange", s |-> s, t |-> t,
                                            unit_id |-> sids[a],
                                            target_unit_id |-> tids[b],
                                            target_unit_position |-> b - 1]
                   ELSE /\ s # t
                        /\ content' = move_unit(content, s, sids[a], t, "", 0)
                        /\ save_last' = [op |-> "move", s |-> s, t |-> t]
    /\ UNCHANGED <<backup, save_inventories, squads_entries, new_unit_entries,
                   new_units_resupplied_squads, squad_members_ids, squads, mp,
                   save_pc>>
    /\ SaveFrame

NextSave ==
    \/ RefillMissingSquadMembers
    \/ BeginSave
    \/ SaveSquadMemberInventory
    \/ SaveSquadsEntries
    \/ SaveNewUnitEntries
    \/ FinishSave

SpecSave == InitSave /\ [][NextSave]_vars

\* the two pools of campaign_status_info in one session: the resupply of one
\* member spends AP, refill_missing_squad_members spends MP; the window runs
\* one handler at a time, so members are added before a
\* refill_squad_member_inventory call or after it, never inside it
InitPools ==
    /\ squads_inventories \in [1 .. 1 -> LoadedInventories]
    /\ ap \in APValues
    /\ pc = At(1, "begin", 1)
    /\ step = NoStep(<<>>, 0).step
    /\ not_enough_ap = 0
    /\ InvIdle
    /\ CostIdle
    /\ KBIdle
    /\ LoadIdle
    /\ content = SavedText({}, 0, SavedRoster)
    /\ backup = <<>>
    /\ save_inventories = <<EntityOf(U1, HUMAN_BREED, <<ITEM_A>>, -1, -1, -1),
                            EntityOf(U2, ENTITY_BREED, <<>>, -1, 7, 55)>>
    /\ squads_entries = extract_squads_information(content, FALSE).squads_entries
    /\ squads = extract_squads_information(content, FALSE).squads
    /\ squad_members_ids = get_all_squad_members_ids(squads)
    /\ mp \in MPValues
    /\ new_unit_entries = <<>>
    /\ new_units_resupplied_squads = {}
    /\ save_pc = [phase |-> "idle", k |-> 0]
    /\ save_last = [op |-> "none"]

AddMissingSquadMembers ==
    /\ pc.phase \in {"begin", "show", "done", "raised"}
    /\ RefillMissingSquadMembers

NextPools ==
    \/ NextRefill
    \/ AddMissingSquadMembers

SpecPools == InitPools /\ [][NextPools]_vars

\* the unit manager alone: the save as loaded, then moves and exchanges
InitMove ==
    /\ InvIdle
    /\ CostIdle
    /\ RefillIdle
    /\ KBIdle
    /\ LoadIdle
    /\ \E withSection \in SUBSET {U1, U2}, w \in {0, 1} :
           content = SavedText(withSection, w, SavedRoster)
    /\ backup = <<>>
    /\ save_inventories = <<>>
    /\ squads_entries = <<>>
    /\ new_unit_entries = <<>>
    /\ new_units_resupplied_squads = {}
    /\ squad_members_ids = <<>>
    /\ squads = <<>>
    /\ mp = 0
    /\ save_pc = [phase |-> "idle", k |-> 0]
    /\ save_last = [op |-> "none"]

NextMove == MoveUnit

SpecMove == InitMove /\ [][NextMove]_vars

-----------------------------------------------------------------------------
(***************************************************************************)
(* KnowledgeBase.init_knowledge_base, lines 333-336: the sizes of the item *)
(* patterns and of the items.  A size is the record [x, y, to]: x and y of  *)
(* a {size x y} group (-1 when the dict has none) and to, the name under    *)
(* "pattern_to_seek" (-1 when the dict has no such key).  The patterns the  *)
(* pattern files define are named 1 .. MaxPatterns, the items by their      *)
(* position in item_files; 0 is a name no file defines.                     *)
(***************************************************************************)

MaxPatterns == 3
MaxItems == 3

Size(x, y) == [x |-> x, y |-> y, to |-> -1]
Seek(name) == [x |-> -1, y |-> -1, to |-> name]

\* {"x": "0", "y": "0"}
ZERO_SIZE == Size(0, 0)

\* None, what dict.get returns for a key the dict does not hold
NONE_SIZE == Size(-1, -1)

\* what get_item_pattern_sizes stores for a pattern file (lines 171-186)
PatternData == {Size(1, 2), ZERO_SIZE} \cup {Seek(t) : t \in 0 .. MaxPatterns}

\* what an item file holds (lines 233-266): its own size, a from-reference to
\* a pattern, a weapon of the gun or reactive directory, a from-reference to
\* another item
ItemData ==
    {[kind |-> "size", to |-> -1], [kind |-> "gun", to |-> -1]}
    \cup {[kind |-> "pattern", to |-> t] : t \in 0 .. 1}
    \cup {[kind |-> "item", to |-> t] : t \in 0 .. MaxItems}

\* the interpreter ends a recursion deeper than its limit with RecursionError;
\* a chain of from-references deeper than the number of patterns has come
\* back to a pattern it has visited and does not end before that limit
RecursionLimit == MaxPatterns + 1

InitKB ==
    /\ item_pattern_sizes \in [1 .. MaxPatterns -> PatternData]
    /\ resolved = <<>>
    /\ frame = [depth |-> 0]
    /\ item_files = <<>>
    /\ kb_item_sizes = <<>>
    /\ kb_pc = [phase |-> "patterns", i |-> 1, raised |-> "none"]
    /\ InvIdle
    /\ CostIdle
    /\ RefillIdle
    /\ SaveIdle
    /\ LoadIdle

KBFrame == UNCHANGED <<invVars, costVars, refillVars, saveVars, loadVars>>

\* the comprehension of lines 189-191 has the value v for its key kb_pc.i;
\* after the last key line 333 stores the dict as item_pattern_sizes
Resolved(v) ==
    /\ resolved' = Append(resolved, v)
    /\ frame' = [depth |-> 0]
    /\ IF kb_pc.i = MaxPatterns
       THEN /\ item_pattern_sizes' = resolved'
            /\ kb_pc' = [kb_pc EXCEPT !.phase = "items", !.i = 1]
       ELSE /\ kb_pc' = [kb_pc EXCEPT !.i = @ + 1]
            /\ UNCHANGED item_pattern_sizes

\* one call of KnowledgeBase._resolve_pattern_size: the call the comprehension
\* makes for the next key, or the call the running one makes for its target
ResolvePatternSize ==
    /\ kb_pc.phase = "patterns"
    /\ LET pattern_data == IF frame.depth = 0 THEN item_pattern_sizes[kb_pc.i]
                           ELSE frame.data
           depth == IF frame.depth = 0 THEN 1 ELSE frame.depth
       IN  IF pattern_data.to = -1 THEN Resolved(pattern_data)
           ELSE IF pattern_data.to \notin DOMAIN item_pattern_sizes
                THEN Resolved(ZERO_SIZE)
                ELSE LET target == item_pattern_sizes[pattern_data.to]
                     IN  IF target.to = -1 THEN Resolved(target)
                         ELSE IF depth + 1 > RecursionLimit
                              THEN /\ kb_pc' = [kb_pc EXCEPT !.phase = "raised",
                                                    !.raised = "RecursionError"]
                                   /\ UNCHANGED <<item_pattern_sizes, resolved, frame>>
                              ELSE /\ frame' = [depth |-> depth + 1, data |-> target]
                                   /\ UNCHANGED <<item_pattern_sizes, resolved, kb_pc>>
    /\ UNCHANGED <<item_files, kb_item_sizes>>
    /\ KBFrame

\* one round of the loop of get_item_sizes over the item files (lines 233-266):
\* the file read in this round is item
GetItemSize ==
    /\ kb_pc.phase = "items"
    /\ \E item \in ItemData :
       /\ item_files' = Append(item_files, item)
       /\ LET next == IF kb_pc.i = MaxItems
                      THEN [kb_pc EXCEPT !.phase = "update", !.i = 1]
                      ELSE [kb_pc EXCEPT !.i = @ + 1]
          IN  CASE item.kind = "size" ->
                     /\ kb_item_sizes' = Append(kb_item_sizes, Size(2, 1))
                     /\ kb_pc' = next
                [] item.kind = "gun" ->
                     /\ kb_item_sizes' = Append(kb_item_sizes, ZERO_SIZE)
                     /\ kb_pc' = next
                [] item.kind = "pattern" /\ item.to \in DOMAIN item_pattern_sizes ->
                     /\ kb_item_sizes' = Append(kb_item_sizes, item_pattern_sizes[item.to])
                     /\ kb_pc' = next
                [] item.kind = "pattern" /\ item.to \notin DOMAIN item_pattern_sizes ->
                     \* self.item_pattern_sizes[pattern_to_seek] of line 257
                     /\ kb_pc' = [kb_pc EXCEPT !.phase = "raised", !.raised = "KeyError"]
                     /\ UNCHANGED kb_item_sizes
                [] item.kind = "item" ->
                     /\ kb_item_sizes' = Append(kb_item_sizes, Seek(item.to))
                     /\ kb_pc' = next
    /\ UNCHANGED <<item_pattern_sizes, resolved, frame>>
    /\ KBFrame

\* the loop of lines 268-278: item_sizes.get(pattern) for the items that name
\* another item
UpdateItemSizes ==
    /\ kb_pc.phase = "update"
    /\ kb_item_sizes' =
          [k \in DOMAIN kb_item_sizes |->
              LET v == kb_item_sizes[k]
              IN  IF v.to = -1 THEN v
                  ELSE IF v.to \in DOMAIN kb_item_sizes THEN kb_item_sizes[v.to]
                       ELSE NONE_SIZE]
    /\ kb_pc' = [kb_pc EXCEPT !.phase = "done"]
    /\ UNCHANGED <<item_pattern_sizes, resolved, frame, item_files>>
    /\ KBFrame

NextKB ==
    \/ ResolvePatternSize
    \/ GetItemSize
    \/ UpdateItemSizes

SpecKB == InitKB /\ [][NextKB]_vars

-----------------------------------------------------------------------------
(* What the claims speak of, stated without the loops of the code *)

Cells(sh) == (0 .. (sh[1] - 1)) \X (0 .. (sh[2] - 1))

\* the cell c is empty and the whole xs by ys footprint at c is inside the
\* grid and empty
FootprintFree(sh, occ, c, sz) ==
    /\ c \notin occ
    /\ \A i \in 0 .. (sz.x - 1) : \A j \in 0 .. (sz.y - 1) :
           InBounds(sh, c[1] + i, c[2] + j) /\ <<c[1] + i, c[2] + j>> \notin occ

\* c comes no later than d in column-major order (y first, then x)
ColumnMajorLeq(c, d) == c[2] < d[2] \/ (c[2] = d[2] /\ c[1] <= d[1])

FreeCells(sh, occ, name) == {c \in Cells(sh) : FootprintFree(sh, occ, c, item_sizes(name))}

EntryCells(e) ==
    {<<e.x + i, e.y + j>> : i \in 0 .. (item_sizes(e.name).x - 1),
                            j \in 0 .. (item_sizes(e.name).y - 1)}

\* the amount an entry stands for: its amount token, 1 when it has none
AmountOfEntry(e) == convert_inventory_entry_to_game_item_info(e).amount

\* the entries fill_item_in_inventory looks at for an item: not tagged
\* filling or filled, and holding the quoted name of the item
Matching(entries, name) ==
    {i \in 1 .. Len(entries) : entries[i].tag = "none" /\ NameInEntry(name, entries[i])}

\* C1: on a built grid find_inventory_space_for_item returns the first cell in
\* column-major order whose whole footprint is inside the grid and empty, and
\* raises ItemFitError exactly when there is no such cell; two 2x2 items added
\* to an empty 4x4 grid stand at (0,0) and (2,0).
C1_FirstFit ==
    /\ inventory_matrix.built =>
         \A name \in ItemNames :
            LET r == find_inventory_space_for_item(shape, inventory_matrix.val, name)
                free == FreeCells(shape, inventory_matrix.val, name)
            IN  /\ r.found <=> free # {}
                /\ r.found => /\ <<r.x, r.y>> \in free
                              /\ \A d \in free : ColumnMajorLeq(<<r.x, r.y>>, d)
    /\ (/\ shape = <<4, 4>>
        /\ Len(inventory_entries) = 2
        /\ inventory_entries[1].name = BOX
        /\ inventory_entries[2].name = BOX)
       => /\ <<inventory_entries[1].x, inventory_entries[1].y>> = <<0, 0>>
          /\ <<inventory_entries[2].x, inventory_entries[2].y>> = <<2, 0>>

\* two 2x2 items were added to the empty 4x4 grid
C1_Witness ==
    /\ shape = <<4, 4>>
    /\ last.op = "add_item_to_inventory" /\ last.ret = "True"
    /\ Len(inventory_entries) = 2
    /\ inventory_entries[1].name = BOX
    /\ inventory_entries[2].name = BOX

\* C2: after any sequence of add_item_to_inventory and fill_item_in_inventory
\* calls on an inventory that built without overlap, no cell is covered by the
\* footprints of two entries and every footprint lies inside the grid.
C2_NoOverlap ==
    /\ \A i \in 1 .. Len(inventory_entries) :
          \A c \in EntryCells(inventory_entries[i]) : InBounds(shape, c[1], c[2])
    /\ \A i, j \in 1 .. Len(inventory_entries) :
          i # j => EntryCells(inventory_entries[i]) \cap EntryCells(inventory_entries[j]) = {}
    /\ create_inventory_matrix(shape, inventory_entries).status = "ok"

\* an item was added next to entries that already cover cells, and an entry
\* was filled
C2_Witness ==
    /\ last.op = "add_item_to_inventory" /\ last.ret = "True"
    /\ Len(inventory_entries) = MaxEntries
    /\ \E i \in 1 .. Len(inventory_entries) : inventory_entries[i].amt = 3
    /\ Cardinality(inventory_matrix.val) >= 4

\* C4: fill_item_in_inventory(name, cap) returns 0 and leaves every entry as
\* it was when every matching entry not tagged filling/filled already has an
\* amount of at least cap.
C4_FillIdempotent ==
    \A name \in ItemNames, cap \in FillCaps :
        (\A i \in Matching(inventory_entries, name) : AmountOfEntry(inventory_entries[i]) >= cap)
        => LET r == fill_item_in_inventory(shape, inventory_entries, inventory_matrix, name, cap)
           IN  r.delta = 0 /\ r.entries = inventory_entries

\* a fill was called for an item whose stacks were all at the largest cap
C4_Witness ==
    /\ last.op = "fill_item_in_inventory" /\ last.delta = 0 /\ last.name = AMMO
    /\ Matching(inventory_entries, AMMO) # {}
    /\ \A i \in Matching(inventory_entries, AMMO) : inventory_entries[i].amt = 3

\* C5: when some entry not tagged filling/filled matches the name and has an
\* amount below cap (1 for an entry written without an amount token), the
\* first such entry gets the amount cap, the call returns cap minus the old
\* amount and nothing else changes; a non-zero return always goes with an
\* entry raised by that much.
C5_FillRaisesFirstBelowCap ==
    \A name \in ItemNames, cap \in FillCaps :
        LET below == {i \in Matching(inventory_entries, name) :
                         AmountOfEntry(inventory_entries[i]) < cap}
            r == fill_item_in_inventory(shape, inventory_entries, inventory_matrix, name, cap)
        IN  /\ below # {} =>
                LET i == CHOOSE k \in below : \A m \in below : k <= m IN
                /\ r.delta = cap - AmountOfEntry(inventory_entries[i])
                /\ r.entries = [inventory_entries EXCEPT ![i].amt = cap]
            /\ r.delta # 0 =>
                \E i \in 1 .. Len(inventory_entries) :
                    /\ r.entries = [inventory_entries EXCEPT ![i].amt = cap]
                    /\ AmountOfEntry(r.entries[i]) - AmountOfEntry(inventory_entries[i]) = r.delta

\* C3: a call of add_item_to_inventory for an item that no cell of the built
\* grid fits returns False and leaves the entries, the grid and the item
\* counts as they were.
C3_FailedAddKeepsState ==
    [][(/\ last'.op = "add_item_to_inventory"
        /\ inventory_matrix.built
        /\ FreeCells(shape, inventory_matrix.val, last'.name) = {})
       => (/\ last'.ret = "False"
           /\ UNCHANGED <<inventory_entries, inventory_matrix, item_counts>>)]_vars

\* C3 witness: a call of add_item_to_inventory on a grid with entries has
\* returned False.
C3_Witness ==
    /\ last.op = "add_item_to_inventory"
    /\ last.ret = "False"
    /\ inventory_entries # <<>>
    /\ FreeCells(shape, inventory_matrix.val, last.name) = {}

\* C6: whenever a refill step reads item_counts, the table is the one of the
\* entries as they stand (no add or fill since the last count), so the number
\* read is the amount the entries hold.
C6_CountsFresh ==
    step.read.done => (step.read.fresh /\ step.read.got = step.read.actual)

\* C7: refill_supplies_resources on a unit with resources r in 0..10 and an
\* AP pool of at least (10 - r) * 2.5 sets the resources to 10 and takes
\* exactly (10 - r) * 2.5 AP (250 hundredths a point) from the pool.
C7_ResourcesRefill ==
    [][(/\ pc.phase = "resources"
        /\ squads_inventories[pc.unit].resources \in 0 .. 10
        /\ ap >= (10 - squads_inventories[pc.unit].resources) * 250)
       => (/\ squads_inventories'[pc.unit].resources = 10
           /\ ap' = ap - (10 - squads_inventories[pc.unit].resources) * 250)]_vars

\* C7 witness: a unit that had 7 resources was refilled to 10 for 7.5 AP.
C7_Witness ==
    /\ step.kind = "resources"
    /\ ~step.skipped
    /\ step.cost = 750
    /\ squads_inventories[step.unit].resources = 10

\* C8: a refill step whose cost exceeds the AP pool leaves every inventory of
\* the squad and the pool as they were, and after such a step the remaining
\* steps and units are still attempted: the resupply is never left by an
\* exception once a step has been skipped for want of AP.
C8_SkipThenRestAttempted ==
    /\ [][(/\ pc.phase \in {"weapons", "equipment", "ammunition", "resources",
                            "vehicle_ammunition", "supplies", "fuel"}
           /\ step'.cost > ap)
          => (/\ squads_inventories' = squads_inventories
              /\ ap' = ap
              /\ step'.skipped
              /\ pc' # pc)]_vars
    /\ [](not_enough_ap >= 1 => pc.phase # "raised")

\* the infantry part of the unrounded sum of a composition, in tenths
InfantrySum(c) ==
    LET IC == [m \in DOMAIN comp_members[c] |->
                  IF IsInfantryMember(m) THEN infantry_costs(m) * comp_members[c][m] ELSE 0]
    IN  SumOver(DOMAIN comp_members[c], IC, 0)

\* a member of the composition resolves through the vehicle path
HasVehicleMember(c) == \E m \in DOMAIN comp_members[c] : IsVehicleMember(m)

\* the cost is the smallest multiple of 5 that is not below the total
SmallestMultipleOfFive(cost, total) ==
    /\ cost % 5 = 0
    /\ cost * TENTHS >= total
    /\ (cost - 5) * TENTHS < total

\* C9 (amended): a visited composition with a member that resolves through
\* the vehicle path costs the smallest multiple of 5 that is not below its
\* unrounded total; every other visited composition costs the whole part of
\* its unrounded sum, the declared cost plus infantry cost times count.
C9_CostRoundingWhole ==
    \A c \in DOMAIN total_cost :
        total_cost[c] # -1 =>
            IF HasVehicleMember(c)
            THEN SmallestMultipleOfFive(comp_cost[c], total_cost[c])
            ELSE LET sum == declared_cost[c] * TENTHS + InfantrySum(c)
                 IN  /\ comp_cost[c] * TENTHS <= sum
                     /\ sum < (comp_cost[c] + 1) * TENTHS

\* C9 witness: the loop has visited a composition with a vehicle member whose
\* total was not a multiple of 5, and one with infantry only whose sum is
\* not a whole number.
C9_Witness ==
    /\ \E c \in DOMAIN total_cost :
          /\ total_cost[c] # -1 /\ HasVehicleMember(c)
          /\ total_cost[c] % (5 * TENTHS) # 0
    /\ \E c \in DOMAIN total_cost :
          /\ total_cost[c] # -1 /\ ~HasVehicleMember(c)
          /\ InfantrySum(c) % TENTHS # 0

\* C9 (as stated): a visited composition with a member that resolves through
\* the vehicle path costs the smallest multiple of 5 that is not below its
\* unrounded total; every other visited composition costs exactly its
\* unrounded sum, the declared cost plus infantry cost times count.
C9_CostRounding ==
    \A c \in DOMAIN total_cost :
        total_cost[c] # -1 =>
            IF HasVehicleMember(c)
            THEN SmallestMultipleOfFive(comp_cost[c], total_cost[c])
            ELSE comp_cost[c] * TENTHS = declared_cost[c] * TENTHS + InfantrySum(c)

\* C10: when the loop is over, the costs are what the loop gives for every
\* other order of the same compositions, and a nested composition has added
\* its final cost times its count to the total of the composition holding it.
C10_OrderIndependent ==
    CostsDone =>
        /\ \A o \in Orders : comp_cost = CostsInOrder(o, comp_members, declared_cost, 1)
        /\ \A c \in CompNames :
              LET NC == [m \in DOMAIN comp_members[c] |->
                            IF IsVehicleMember(m) /\ m # c
                            THEN comp_cost[m] * TENTHS * comp_members[c][m] ELSE 0]
              IN  total_cost[c] = SumOver(DOMAIN comp_members[c], NC,
                                          declared_cost[c] * TENTHS + InfantrySum(c))

-----------------------------------------------------------------------------
(* The save file: what the claims speak of *)

\* the position of the open marker of the roster, 0 when the text has none
MarkerPos(text) ==
    LET ms == {i \in DOMAIN text : text[i].k = "CampaignSquads"}
    IN  IF ms = {} THEN 0 ELSE CHOOSE i \in ms : \A h \in ms : i <= h

\* the fragment as lines of the file: a tab in front of its header
Tabbed(frag) == <<[frag[1] EXCEPT !.ind = @ + 1]>> \o Tail(frag)

InsertedBefore(text, frag) ==
    LET m == MarkerPos(text)
    IN  SubSeq(text, 1, m - 1) \o Tabbed(frag) \o SubSeq(text, m, Len(text))

InsertedAfter(text, frag) ==
    LET m == MarkerPos(text)
    IN  SubSeq(text, 1, m) \o Tabbed(frag) \o SubSeq(text, m + 1, Len(text))

\* save_changes is about to save the inventory CurInv
Saving == save_pc.phase = "inventories" /\ save_pc.k < Len(save_inventories)

CurInv == save_inventories[save_pc.k + 1]

CurFrag == prepare_inventory_for_saving(CurInv)

OpenPos(text, id) ==
    LET os == {i \in DOMAIN text : text[i].k = "Inventory" /\ text[i].id = id}
    IN  IF os = {} THEN 0 ELSE CHOOSE i \in os : \A h \in os : i <= h

\* the lines of the inventory section of id
SectionOf(text, id) ==
    IF OpenPos(text, id) = 0 THEN <<>>
    ELSE SubSeq(text, OpenPos(text, id), SectionClose(text, OpenPos(text, id)))

C13_WriteAfterAllFragments ==
    /\ [][(save_pc.phase = "inventories" /\ content' # content) =>
             save_pc'.k = Len(save_inventories)]_vars
    /\ [](save_pc.phase = "raised" => content = backup)

\* C14: move_unit, for a move and for an exchange, changes the roster lines of
\* the source squad and of the target squad only; every other line of the
\* file, with its trailing blanks and its line end, is byte-identical.
C14_MoveFrame ==
    [][save_last'.op \in {"move", "exchange"} =>
          /\ Len(content') = Len(content)
          /\ \A i \in DOMAIN content :
                 i \notin {MarkerPos(content) + 1 + save_last'.s,
                           MarkerPos(content) + 1 + save_last'.t}
                     => content'[i] = content[i]]_vars

\* save_changes is about to call save_squads_entries
SavingSquads ==
    /\ save_pc.phase = "inventories"
    /\ save_pc.k = Len(save_inventories)
    /\ new_unit_entries # <<>>

\* C15: save_squads_entries replaces the whole block of the roster, from its
\* open marker to its close, by the squads_entries held in memory: one line per
\* squad in the same order, and the text before and after the block unchanged.
C15_RosterRewrite ==
    [][SavingSquads =>
          LET m == MarkerPos(content)
              c == SectionClose(content, m)
              n == Len(squads_entries)
          IN  /\ Len(content') = Len(content) - (c - m - 1) + n
              /\ SubSeq(content', 1, m) = SubSeq(content, 1, m)
              /\ \A i \in 1 .. n :
                     content'[m + i] = Ln(2, "squad", "", squads_entries[i], -1, 0)
              /\ SubSeq(content', m + n + 1, Len(content'))
                     = SubSeq(content, c, Len(content))]_vars

C15_Witness ==
    /\ save_last.op = "save_squads"
    /\ \E i \in DOMAIN SavedRoster :
           /\ squads_entries[i] # SavedRoster[i]
           /\ content[MarkerPos(content) + i].v = squads_entries[i]

\* the position of the first anchor of the player, 0 when the text has none
AnchorPos(text) ==
    LET as == {i \in DOMAIN text : IsUserPlayer(text[i])}
    IN  IF as = {} THEN 0 ELSE CHOOSE i \in as : \A h \in as : i <= h

\* the new unit entries as lines of the file
CurUnits == prepare_new_unit_entries_for_saving(new_unit_entries)

\* C16: save_new_unit_entries inserts the new unit declarations right before
\* the first anchor of the player and nowhere else, and called once more with
\* the same fragment it leaves two copies of it, both before that anchor.
C16_UnitsBeforeAnchor ==
    [][save_pc.phase = "units" =>
          LET a == AnchorPos(content)
              before == SubSeq(content, 1, a - 1)
              rest   == SubSeq(content, a, Len(content))
          IN  /\ a # 0
              /\ content' = before \o CurUnits \o rest
              /\ save_new_unit_entries(content', CurUnits)
                     = before \o CurUnits \o CurUnits \o rest]_vars

C16_Witness ==
    /\ save_last.op = "save_units"
    /\ save_last.n >= 1
    /\ content[AnchorPos(content) - 1].k \in {"Human", "Entity"}
    /\ content[AnchorPos(content) - 1].id \notin {U1, U2}

\* the number of declarations of the unit id in the text
CountDecl(text, id) ==
    Cardinality({i \in DOMAIN text :
                    /\ text[i].k \in {"Human", "Entity"}
                    /\ text[i].id = id
                    /\ Len(text[i].v) = 2})

Pending(id) == \E i \in DOMAIN new_unit_entries : new_unit_entries[i].id = id

\* the ids generate_random_hex returns here
NewIds == {generate_random_hex(random_int) : random_int \in RandomInts}

CountPending(id) ==
    Cardinality({i \in DOMAIN new_unit_entries : new_unit_entries[i].id = id})

\* C17: over every sequence of refill_missing_squad_members and save_changes
\* calls every newly created unit declaration is inserted into the file exactly
\* once: the step of save_changes that inserts adds exactly the declarations
\* waiting in new_unit_entries and empties it, no other step adds or removes a
\* unit declaration, and so a second save_changes with no unit created in
\* between inserts nothing.
C17_InsertedOnce ==
    [][/\ \A id \in NewIds :
              CountDecl(content', id) =
                  CountDecl(content, id)
                      + (IF save_last'.op = "save_units" THEN CountPending(id) ELSE 0)
       /\ save_last'.op = "save_units" => new_unit_entries' = <<>>
       /\ save_pc'.phase = "status" => new_unit_entries' = <<>>]_saveVars

C17_Witness ==
    /\ save_last.op = "saved"
    /\ CountDecl(content, "0xffff") = 1
    /\ CountDecl(content, "0x8000") = 1
    /\ CountDecl(backup, "0xffff") + CountDecl(backup, "0x8000") = 1

\* C18: when the entries of a unit hold two footprints that share a cell,
\* building its grid aborts that unit only: the handler that refills the batch
\* does not end on that AssertionError while units of the batch are left.
C18_OverlapAbortsUnitOnly ==
    (pc.phase = "raised" /\ step.raised = "AssertionError")
        => pc.unit = Len(squads_inventories)

\* C19: a lookup of an item, weapon or pattern name that a derived table does
\* not hold never raises; the construction of the knowledge base goes on with
\* a sentinel when get_item_sizes meets a from-reference to an unknown pattern.
C19_LookupMissNeverRaises == kb_pc.raised # "KeyError"

\* C20: _resolve_pattern_size returns a size after finitely many calls for
\* every table of from-references, also when a pattern names itself or the
\* patterns name each other in a cycle: the recursion never runs into the
\* limit of the interpreter.
C20_ResolveTerminates == kb_pc.raised # "RecursionError"

\* the item at the end of the chain of from-references that starts at item k,
\* 0 when the chain leaves the item files or is longer than fuel
RECURSIVE ChainEnd(_, _)
ChainEnd(k, fuel) ==
    IF k \notin DOMAIN item_files \/ fuel = 0 THEN 0
    ELSE IF item_files[k].kind = "item" THEN ChainEnd(item_files[k].to, fuel - 1)
         ELSE k

\* C21: after get_item_sizes every entry of item_sizes is a concrete size,
\* neither a reference nor None, and an item whose chain of from-references
\* ends in an item with a declared size has that declared size, whatever the
\* length of the chain.
C21_ItemSizesConcrete ==
    kb_pc.phase = "done" =>
        \A k \in DOMAIN kb_item_sizes :
            /\ kb_item_sizes[k].to = -1
            /\ kb_item_sizes[k] # NONE_SIZE
            /\ LET e == ChainEnd(k, MaxItems)
               IN  (e # 0 /\ item_files[e].kind = "size")
                       => kb_item_sizes[k] = Size(2, 1)

\* the lines between line i and the next TAB_CLOSE
BlockAfter(text, i) == SubSeq(text, i + 1, ReadToTabClose(text, i + 1))

\* what the save holds for the unit whose id is exactly id
UnitOf(text, id) ==
    LET d == CHOOSE i \in DOMAIN text :
                 text[i].k \in {"Entity", "Human"} /\ text[i].id = id
        ss == {i \in DOMAIN text : text[i].k = "Inventory" /\ text[i].id = id}
        props == BlockAfter(text, d)
    IN  EntityOf(id, text[d].v[1],
                 IF ss = {} THEN <<>>
                 ELSE SelectSeq(BlockAfter(text, CHOOSE i \in ss : TRUE),
                                LAMBDA l : l.k = "item"),
                 FirstCurrent(props, "resources"),
                 FirstCurrent(props, "supply_zone"),
                 FirstCurrent(props, "FuelBag"))

\* C22: the breed, the inventory entries and the extender values extracted
\* for an entity id are those of the unit whose id is exactly that id, also
\* when the save holds a unit whose id begins with it.
C22_ExtractByWholeId ==
    \A k \in DOMAIN loaded :
        loaded[k] = UnitOf(campaign_file, squad_members[k])

\* the amount the standard inventory of the unit lists for the item
TargetAmount(inv, name) ==
    LET hs == {i \in DOMAIN Standard(inv) : Standard(inv)[i].game_item_name = name}
    IN  Standard(inv)[CHOOSE i \in hs : \A h \in hs : i <= h].amount

\* C23: a refill of an ammunition item whose counted amount is below the
\* target, with enough AP and a free place in the grid, ends without an error
\* and leaves the inventory holding the target amount of the item.
C23_AmmoRefillReachesTarget ==
    [][(/\ pc.phase \in {"ammunition", "vehicle_ammunition"}
        /\ step'.kind = "ammunition"
        /\ step'.cost >= 0
        /\ ~step'.skipped
        /\ LET inv == squads_inventories[pc.unit]
           IN  FreeCells(inv.shape, inv.inventory_matrix.val, step'.name) # {})
       => (/\ step'.raised = "none"
           /\ LET inv == squads_inventories'[pc.unit]
              IN  AmountOf(inv.inventory_entries, step'.name, 1)
                      = TargetAmount(inv, step'.name))]_vars

\* the first position of id in a sequence of ids, 0 when it is not there
FirstOf(ids, id) ==
    LET hs == {i \in DOMAIN ids : ids[i] = id}
    IN  IF hs = {} THEN 0 ELSE CHOOSE i \in hs : \A h \in hs : i <= h

\* the bag of the member ids of the two squads of the roster
RosterBag(text) ==
    LET ids == RosterIds(text, 0) \o RosterIds(text, 1)
    IN  [id \in {ids[i] : i \in DOMAIN ids} |->
            Cardinality({i \in DOMAIN ids : ids[i] = id})]

CountIn(entry, id) == Cardinality({i \in DOMAIN entry : entry[i] = id})

\* C29: every unit created by create_new_squad_member has its id exactly once
\* in the roster entry of its squad, where it replaced one deceased slot, and
\* its declaration is queued for saving: no declaration is queued with an id
\* that is missing from the roster, also for a squad whose entry has no
\* deceased slot left.
C29_CreatedIdInRoster ==
    [][save_last'.op = "refill_missing" =>
          LET squad_id == save_last'.squad_id
              created == save_last'.ids
          IN  /\ \A i \in DOMAIN created :
                     /\ CountIn(squads_entries'[squad_id + 1], created[i]) = 1
                     /\ \E k \in DOMAIN new_unit_entries' :
                            new_unit_entries'[k].id = created[i]
              /\ CountIn(squads_entries'[squad_id + 1], DECEASED_MEMBER_ID) =
                     CountIn(squads_entries[squad_id + 1], DECEASED_MEMBER_ID)
                         - Len(created)]_saveVars

\* the members of the squad the last load found living
Living(squad_id) == Len(Keys(squads[squad_id + 1].squad_members))

\* C28: over every sequence of refill_missing_squad_members calls on a squad
\* between two loads the living members and the newly created ones together
\* never exceed the member total of the standard composition: one call creates
\* at most the members the squad lacks, a call that creates marks the squad in
\* new_units_resupplied_squads, a marked squad gets no further member, and the
\* mark is never taken back.
C28_NeverAboveStandard ==
    [][/\ save_last'.op = "refill_missing" =>
              LET squad_id == save_last'.squad_id
                  created == Len(save_last'.ids)
              IN  /\ created > 0 =>
                         Living(squad_id) + created
                             <= SumAmounts(StandardMembers(squads[squad_id + 1].squad_name))
                  /\ squad_id \in new_units_resupplied_squads => created = 0
                  /\ created > 0 => squad_id \in new_units_resupplied_squads'
       /\ new_units_resupplied_squads \subseteq new_units_resupplied_squads']_saveVars

\* squad a of the exchanged roster lacks two riflemen by breed and one member
\* by number: it got one, and a second call gave it nothing
C28_Witness ==
    /\ squads_entries[1][3] = U2
    /\ CountIn(squads_entries[1], DECEASED_MEMBER_ID) = 0
    /\ save_last.op = "refill_missing"
    /\ save_last.squad_id = 0
    /\ save_last.ids = <<>>
    /\ 0 \in new_units_resupplied_squads

HexDigits ==
    {"0", "1", "2", "3", "4", "5", "6", "7", "8", "9", "a", "b", "c", "d", "e", "f"}

\* the ids 0x8000 .. 0xffff as they are written
IdRange ==
    {"0x" \o a \o b \o c \o d :
        a \in {"8", "9", "a", "b", "c", "d", "e", "f"},
        b \in HexDigits, c \in HexDigits, d \in HexDigits}

\* C27: every id create_new_squad_member returns lies in 0x8000..0xffff and
\* differs from the id of every squad member loaded from the save and from
\* every id created earlier in the session (those wait in new_unit_entries or
\* are declared in the file), so squad_members_ids never holds an id twice.
C27_FreshIds ==
    [][save_last'.op = "refill_missing" =>
          LET created == save_last'.ids
          IN  /\ \A i \in DOMAIN created :
                     /\ created[i] \in IdRange
                     /\ \A k \in DOMAIN squad_members_ids :
                            squad_members_ids[k] # created[i]
                     /\ CountPending(created[i]) = 0
                     /\ CountDecl(content, created[i]) = 0
                     /\ \A h \in DOMAIN created : created[h] = created[i] => h = i
              /\ \A i, k \in DOMAIN squad_members_ids' :
                     squad_members_ids'[i] = squad_members_ids'[k] => i = k]_saveVars

\* C25: the AP pool and the MP pool start at zero or above, the weights and
\* the costs are not negative, and after every sequence of
\* refill_squad_member_inventory and refill_missing_squad_members calls both
\* pools are still zero or above.
C25_PoolsNeverNegative ==
    /\ ap >= 0
    /\ mp >= 0

\* both pools were spent: AP until a step found too little of it left, MP to
\* the last point
C25_Witness ==
    /\ ap \notin APValues
    /\ not_enough_ap > 0
    /\ save_last.op = "refill_missing"
    /\ save_last.ids # <<>>
    /\ mp = 0

\* C26: a step of refill_weapons, refill_equipment or of the refill of
\* ammunition takes from the AP pool the cost of exactly the amount of the item
\* the step added to the inventory or filled in it; a step whose item found no
\* place (add_item_to_inventory returned False) leaves the pool as it was.
C26_PaysForWhatWasAdded ==
    [][(/\ pc.phase \in {"weapons", "equipment", "ammunition", "vehicle_ammunition"}
        /\ step'.kind # "none")
       => LET before == squads_inventories[pc.unit].inventory_entries
              after == squads_inventories'[pc.unit].inventory_entries
          IN  ap - ap' = item_weights(step'.name)
                           * (AmountOf(after, step'.name, 1)
                                - AmountOf(before, step'.name, 1))]_refillVars

\* the cells of the grid that hold nothing
EmptyCells(sh, occ) == Cells(sh) \ occ

\* C30: an item of size 0 x 0 is placed at the first empty cell in
\* column-major order and takes no cell of the grid, so any number of such
\* items can be added while one cell is empty; on a grid without an empty cell
\* the search ends with ItemFitError, which add_item_to_inventory returns as
\* False, and nothing changes.
C30_ZeroSizeItems ==
    [][(/\ last'.op = "add_item_to_inventory"
        /\ inventory_matrix.built
        /\ item_sizes(last'.name) = [x |-> 0, y |-> 0])
       => LET empty == EmptyCells(shape, inventory_matrix.val)
          IN  IF empty = {}
              THEN /\ last'.ret = "False"
                   /\ UNCHANGED <<inventory_entries, inventory_matrix>>
              ELSE /\ last'.ret = "True"
                   /\ inventory_matrix' = inventory_matrix
                   /\ Len(inventory_entries') = Len(inventory_entries) + 1
                   /\ LET e == inventory_entries'[Len(inventory_entries')]
                      IN  /\ e.name = last'.name
                          /\ <<e.x, e.y>> \in empty
                          /\ \A d \in empty : ColumnMajorLeq(<<e.x, e.y>>, d)]_invVars

\* two guns were added at the first empty cell, which is not the first cell
\* of the grid, and it is empty still
C30_Witness ==
    /\ last.op = "add_item_to_inventory"
    /\ last.ret = "True"
    /\ last.name = GUN
    /\ Len(inventory_entries) = 3
    /\ inventory_entries[2].name = GUN
    /\ inventory_entries[3].name = GUN
    /\ <<inventory_entries[3].x, inventory_entries[3].y>> = <<inventory_entries[2].x, inventory_entries[2].y>>
    /\ <<inventory_entries[3].x, inventory_entries[3].y>> # <<0, 0>>
    /\ <<inventory_entries[3].x, inventory_entries[3].y>> \notin inventory_matrix.val

\* a gun was refused on a grid without an empty cell
C30_WitnessFull ==
    /\ last.op = "add_item_to_inventory"
    /\ last.ret = "False"
    /\ last.name = GUN
    /\ EmptyCells(shape, inventory_matrix.val) = {}

====
